---------------------------- MODULE Spec2Model ----------------------------
(***************************************************************************)
(* A model of the data structures of the repository, each a crate of its   *)
(* own: the B-tree (src/btree), the LRU cache (src/lru), the queue          *)
(* (src/queue), the priority queue (src/priority-queue), the union-find    *)
(* (src/union-find), the binary search (src/binary-search), the bag        *)
(* (src/bag, over src/pennant) and the doubly linked list                  *)
(* (src/doubly-linked-list).  A behaviour of a specification exercises one *)
(* of them; the variables of the others stay at rest.                      *)
(*                                                                         *)
(* The B-tree, src/btree/src/lib.rs.                                       *)
(* A Node is the record [keys |-> <<...>>, children |-> <<...>>]; a Btree  *)
(* is the four fields root, size, min_keys, max_keys.  Every function of   *)
(* the source is an operator of the same name that returns the value the   *)
(* function leaves behind together with a flag `panic`, which is TRUE when *)
(* the function hits a failing assert!, an unwrap() of None, an index out  *)
(* of bounds or unreachable!().  When a function panics, the node it       *)
(* returns is the node as the unwinding leaves it (the edits made before   *)
(* the panic are kept).  Indices are 0-based, as in the source.            *)
(***************************************************************************)
EXTENDS Integers, Sequences, FiniteSets, TLC

\* ------------------------------------------------------------------ bounds
\* The degree is drawn from 2..MaxDegree.  The keys of a tree of degree 2 are
\* drawn from 1..MaxKey; each further degree gets one more key, since a node
\* of a larger degree takes more keys to fill and to split.
MaxKey == 8
MaxDegree == 3

Degrees == 2..MaxDegree
KeysOf(mn) == 1..(MaxKey + mn - 1)

VARIABLES
    root,       \* Btree.root: the root Node
    size,       \* Btree.size
    min_keys,   \* Btree.min_keys
    max_keys,   \* Btree.max_keys
    panicked,   \* TRUE once a call has panicked (the call never returned)
    model,      \* the reference set: keys whose insert returned true and
                \* whose remove has not returned true since
    last        \* the last call: its name and the value it returned

VARIABLES
    cache,        \* the LRUCache: entries, head, tail, length
    capacity,     \* the capacity of its array type A
    lru_panicked, \* TRUE once a call on the cache has not returned
    lru_last      \* the last call on the cache and the value it returned

VARIABLES
    queue,        \* the Queue: older, newer
    fifo,         \* the elements pushed and not yet popped, oldest first
    queue_last    \* the last call on the queue and the value it returned

VARIABLES
    pq,           \* the PriorityQueue: storage, comparator
    pq_last       \* the last call on the priority queue and its value

VARIABLES
    uf,           \* the UnionFind: mappings
    uf_joined,    \* the groups that the calls of union have asked for
    uf_unions,    \* the number of calls of union so far
    uf_panicked,  \* TRUE once a call on the union-find has not returned
    uf_last       \* the last call on the union-find and its value

VARIABLES
    input,        \* the Vec<T> that binary_search is called on
    bs_last       \* the last call of binary_search and how it ended

VARIABLES
    bag,          \* the Bag that the calls are made on: spine, capacity, count
    other,        \* a second Bag, the argument of union
    bag_panicked, \* TRUE once a call on a bag has not returned
    bag_last      \* the last call on the bags and what it was given

VARIABLES
    list,         \* the List: nodes (a Slab), head, tail
    deque,        \* the reference double-ended sequence, front first
    list_last     \* the last call on the list and the value it returned

VARIABLES
    ensured       \* the last call of a method of Node made on its own: the
                  \* Node it was made on, its argument and its result

btree_vars == <<root, size, min_keys, max_keys, panicked, model, last>>
lru_vars == <<cache, capacity, lru_panicked, lru_last>>
queue_vars == <<queue, fifo, queue_last>>
pq_vars == <<pq, pq_last>>
uf_vars == <<uf, uf_joined, uf_unions, uf_panicked, uf_last>>
bs_vars == <<input, bs_last>>
bag_vars == <<bag, other, bag_panicked, bag_last>>
list_vars == <<list, deque, list_last>>
node_vars == <<ensured>>

vars == <<btree_vars, lru_vars, queue_vars, pq_vars, uf_vars, bs_vars,
          bag_vars, list_vars, node_vars>>

\* The variables that a behaviour of one structure leaves alone
not_btree == <<lru_vars, queue_vars, pq_vars, uf_vars, bs_vars, bag_vars,
               list_vars, node_vars>>
not_lru == <<btree_vars, queue_vars, pq_vars, uf_vars, bs_vars, bag_vars,
             list_vars, node_vars>>
not_queue == <<btree_vars, lru_vars, pq_vars, uf_vars, bs_vars, bag_vars,
               list_vars, node_vars>>
not_pq == <<btree_vars, lru_vars, queue_vars, uf_vars, bs_vars, bag_vars,
            list_vars, node_vars>>
not_uf == <<btree_vars, lru_vars, queue_vars, pq_vars, bs_vars, bag_vars,
            list_vars, node_vars>>
not_bs == <<btree_vars, lru_vars, queue_vars, pq_vars, uf_vars, bag_vars,
            list_vars, node_vars>>
not_bag == <<btree_vars, lru_vars, queue_vars, pq_vars, uf_vars, bs_vars,
             list_vars, node_vars>>
not_list == <<btree_vars, lru_vars, queue_vars, pq_vars, uf_vars, bs_vars,
              bag_vars, node_vars>>

\* An Option: None, or Some(x)
None == <<>>
Some(x) == <<x>>

\* A structure at rest: nothing has been made of it
BtreeAtRest ==
    /\ root = [keys |-> <<>>, children |-> <<>>]
    /\ size = 0 /\ min_keys = 0 /\ max_keys = 0
    /\ panicked = FALSE /\ model = {}
    /\ last = [op |-> "new", ret |-> FALSE]

LRUAtRest ==
    /\ cache = [entries |-> <<>>, head |-> 0, tail |-> 0, length |-> 0]
    /\ capacity = 0 /\ lru_panicked = FALSE
    /\ lru_last = [op |-> "default", ret |-> None]

QueueAtRest ==
    /\ queue = [older |-> <<>>, newer |-> <<>>]
    /\ fifo = <<>>
    /\ queue_last = [op |-> "new", ret |-> None]

PQAtRest ==
    /\ pq = [storage |-> <<>>, comparator |-> "default"]
    /\ pq_last = [op |-> "default", ret |-> None]

UFAtRest ==
    /\ uf = [mappings |-> <<>>]
    /\ uf_joined = {}
    /\ uf_unions = 0
    /\ uf_panicked = FALSE
    /\ uf_last = [op |-> "new", ret |-> None]

\* Every structure but the one named is at rest
BSAtRest ==
    /\ input = <<>>
    /\ bs_last = [op |-> "none", ret |-> None]

BagAtRest ==
    /\ bag = [spine |-> <<>>, capacity |-> 0, count |-> 0]
    /\ other = [spine |-> <<>>, capacity |-> 0, count |-> 0]
    /\ bag_panicked = FALSE
    /\ bag_last = [op |-> "none"]

ListAtRest ==
    /\ list = [nodes |-> <<>>, head |-> 0, tail |-> 0]
    /\ deque = <<>>
    /\ list_last = [op |-> "none", ret |-> None, panic |-> FALSE]

NodeAtRest == ensured = [op |-> "none"]

OthersAtRest(which) ==
    /\ IF which = "btree" THEN TRUE ELSE BtreeAtRest
    /\ IF which = "lru" THEN TRUE ELSE LRUAtRest
    /\ IF which = "queue" THEN TRUE ELSE QueueAtRest
    /\ IF which = "pq" THEN TRUE ELSE PQAtRest
    /\ IF which = "uf" THEN TRUE ELSE UFAtRest
    /\ IF which = "bs" THEN TRUE ELSE BSAtRest
    /\ IF which = "bag" THEN TRUE ELSE BagAtRest
    /\ IF which = "list" THEN TRUE ELSE ListAtRest
    /\ IF which = "node" THEN TRUE ELSE NodeAtRest

\* The keys that the calls on the program's tree are drawn from
Keys == KeysOf(min_keys)

\* ------------------------------------------------------- Vec<T> operations
\* v[i], 0-based
At(v, i) == v[i + 1]
\* Vec::insert(i, x)
VecInsert(v, i, x) == SubSeq(v, 1, i) \o <<x>> \o SubSeq(v, i + 1, Len(v))
\* Vec::remove(i), the vector that is left
VecRemove(v, i) == SubSeq(v, 1, i) \o SubSeq(v, i + 2, Len(v))
\* v[i] = x
VecSet(v, i, x) == [v EXCEPT ![i + 1] = x]
\* Vec::pop(), the vector that is left
VecPop(v) == SubSeq(v, 1, Len(v) - 1)
\* the last element
VecLast(v) == v[Len(v)]
\* Vec::drain(from ..), the part drained and the part kept
VecDrained(v, from) == SubSeq(v, from + 1, Len(v))
VecKept(v, from) == SubSeq(v, 1, from)

\* ------------------------------------------------------------------- Node
\* Node::new: an empty node (leaf or internal alike: no keys, no children).
\* It asserts max_keys >= 3 && max_keys % 2 == 1.
NodeNewOk(mx) == mx >= 3 /\ mx % 2 = 1
NodeNew == [keys |-> <<>>, children |-> <<>>]

is_leaf(node) == Len(node.children) = 0

\* Node::search: the linear scan from position i
RECURSIVE search_from(_, _, _)
search_from(node, val, i) ==
    IF i < Len(node.keys)
    THEN IF val = At(node.keys, i) THEN [found |-> TRUE, index |-> i]
         ELSE IF val > At(node.keys, i) THEN search_from(node, val, i + 1)
         ELSE [found |-> FALSE, index |-> i]
    ELSE [found |-> FALSE, index |-> i]

search(node, val) == search_from(node, val, 0)

\* A variant of split_right with a slip: the children of an internal node
\* are not moved to the new right node
split_right_without_children(left, mn) ==
    [keys |-> VecDrained(left.keys, mn + 1), children |-> <<>>]

\* Node::split_child, lines 220-226: the new right node, which takes the
\* keys after the middle key and, of an internal node, the children after
\* child min_keys
split_right(left, mn) ==
    [keys |-> VecDrained(left.keys, mn + 1),
     children |-> IF ~is_leaf(left)
                  THEN VecDrained(left.children, mn + 1)
                  ELSE <<>>]

\* A variant of split_child with a slip: the new right node is inserted at
\* index, before the old child
split_child_right_first(self, mn, mx, index) ==
    IF ~(~is_leaf(self) /\ index <= Len(self.keys) /\ Len(self.keys) < mx)
       \/ index >= Len(self.children)
       \/ Len(At(self.children, index).keys) # mx \/ ~NodeNewOk(mx)
    THEN [node |-> self, panic |-> TRUE]
    ELSE [node |->
            [keys |-> VecInsert(self.keys, index,
                                At(At(self.children, index).keys, mn)),
             children |->
                VecInsert(VecSet(self.children, index,
                                 [keys |-> VecKept(At(self.children, index).keys, mn),
                                  children |->
                                    IF ~is_leaf(At(self.children, index))
                                    THEN VecKept(At(self.children, index).children,
                                                 mn + 1)
                                    ELSE <<>>]),
                          index, split_right(At(self.children, index), mn))],
          panic |-> FALSE]

\* Node::split_child
split_child(self, mn, mx, index) ==
    IF ~(~is_leaf(self) /\ index <= Len(self.keys) /\ Len(self.keys) < mx)
    THEN [node |-> self, panic |-> TRUE]
    ELSE IF index >= Len(self.children)
    THEN [node |-> self, panic |-> TRUE]
    ELSE
      LET left == At(self.children, index) IN
      IF Len(left.keys) # mx \/ ~NodeNewOk(mx)
      THEN [node |-> self, panic |-> TRUE]
      ELSE
        LET right == split_right(left, mn)
            middle_key == At(left.keys, mn)
            left2 == [keys |-> VecKept(left.keys, mn),
                      children |-> IF ~is_leaf(left)
                                   THEN VecKept(left.children, mn + 1)
                                   ELSE left.children]
        IN [node |-> [keys |-> VecInsert(self.keys, index, middle_key),
                      children |-> VecInsert(VecSet(self.children, index, left2),
                                             index + 1, right)],
            panic |-> FALSE]

\* A variant of merge_into_left with a slip: the middle key is appended
\* after the keys of the right child
merge_into_left_key_last(left, middle_key, right) ==
    [keys |-> (left.keys \o right.keys) \o <<middle_key>>,
     children |-> IF ~is_leaf(left)
                  THEN left.children \o right.children
                  ELSE left.children]

\* A variant of merge_into_left with a slip: the children of both nodes are
\* dropped
merge_into_left_without_children(left, middle_key, right) ==
    [keys |-> (left.keys \o <<middle_key>>) \o right.keys,
     children |-> <<>>]

\* Node::merge_children, lines 318-323: the left child with the middle key
\* and the keys and children of the right child appended
merge_into_left(left, middle_key, right) ==
    [keys |-> (left.keys \o <<middle_key>>) \o right.keys,
     children |-> IF ~is_leaf(left)
                  THEN left.children \o right.children
                  ELSE left.children]

\* A variant of merge_children with a slip: the right child stays where it is
merge_children_keeping_right(self, mn, index) ==
    IF ~(~is_leaf(self) /\ index < Len(self.keys))
       \/ index + 1 >= Len(self.children)
    THEN [node |-> self, panic |-> TRUE]
    ELSE [node |-> [keys |-> VecRemove(self.keys, index),
                    children |->
                        VecSet(self.children, index,
                               merge_into_left(At(self.children, index),
                                               At(self.keys, index),
                                               At(self.children, index + 1)))],
          panic |-> FALSE]

\* Node::merge_children
merge_children(self, mn, index) ==
    IF ~(~is_leaf(self) /\ index < Len(self.keys))
    THEN [node |-> self, panic |-> TRUE]
    ELSE IF index + 1 >= Len(self.children)
    THEN \* the middle key is removed, children.remove(index + 1) panics
         [node |-> [self EXCEPT !.keys = VecRemove(@, index)], panic |-> TRUE]
    ELSE IF \/ Len(At(self.children, index).keys) # mn
            \/ Len(At(self.children, index + 1).keys) # mn
    THEN \* the middle key and the right child are removed, an assert_eq! fails
         [node |-> [keys |-> VecRemove(self.keys, index),
                    children |-> VecRemove(self.children, index + 1)],
          panic |-> TRUE]
    ELSE [node |-> [keys |-> VecRemove(self.keys, index),
                    children |->
                        VecSet(VecRemove(self.children, index + 1), index,
                               merge_into_left(At(self.children, index),
                                               At(self.keys, index),
                                               At(self.children, index + 1)))],
          panic |-> FALSE]

\* Node::ensure_child_remove, lines 275-276: the last child of the left
\* sibling becomes the first child of the child at index
move_child_from_left(self, index) ==
    LET sib == At(self.children, index - 1)
        child == At(self.children, index)
    IN [self EXCEPT !.children =
          VecSet(VecSet(@, index - 1, [sib EXCEPT !.children = VecPop(@)]),
                 index,
                 [child EXCEPT !.children = VecInsert(@, 0, VecLast(sib.children))])]

\* Node::ensure_child_remove, lines 279-281: the last key of the left sibling
\* goes up to keys[index - 1], the old keys[index - 1] goes down to the front
\* of the child at index
move_key_from_left(self, index) ==
    LET sib == At(self.children, index - 1)
        child == At(self.children, index)
    IN
    IF Len(sib.keys) = 0
    THEN [node |-> self, index |-> index, panic |-> TRUE]
    ELSE [node |->
            [keys |-> VecSet(self.keys, index - 1, VecLast(sib.keys)),
             children |->
               VecSet(VecSet(self.children, index - 1,
                             [sib EXCEPT !.keys = VecPop(@)]),
                      index,
                      [child EXCEPT
                         !.keys = VecInsert(@, 0, At(self.keys, index - 1))])],
          index |-> index, panic |-> FALSE]

\* Node::ensure_child_remove, lines 272-281: steal the rightmost item of the
\* left sibling (children[index - 1])
steal_from_left(self, index, is_internal) ==
    IF is_internal /\ Len(At(self.children, index - 1).children) = 0
    THEN [node |-> self, index |-> index, panic |-> TRUE]
    ELSE IF is_internal
    THEN move_key_from_left(move_child_from_left(self, index), index)
    ELSE move_key_from_left(self, index)

\* Node::ensure_child_remove, lines 285-286: the first child of the right
\* sibling becomes the last child of the child at index
move_child_from_right(self, index) ==
    LET sib == At(self.children, index + 1)
        child == At(self.children, index)
    IN [self EXCEPT !.children =
          VecSet(VecSet(@, index + 1, [sib EXCEPT !.children = VecRemove(@, 0)]),
                 index,
                 [child EXCEPT !.children = Append(@, At(sib.children, 0))])]

\* A variant of move_key_from_right with a slip: the first key of the right
\* sibling goes to the end of the child at index, past the key of the parent
move_key_from_right_past_parent(self, index) ==
    IF Len(At(self.children, index + 1).keys) = 0
    THEN [node |-> self, index |-> index, panic |-> TRUE]
    ELSE [node |->
            [self EXCEPT !.children =
               VecSet(VecSet(@, index + 1,
                             [At(self.children, index + 1) EXCEPT
                                !.keys = VecRemove(@, 0)]),
                      index,
                      [At(self.children, index) EXCEPT
                         !.keys = Append(@, At(At(self.children,
                                                  index + 1).keys, 0))])],
          index |-> index, panic |-> FALSE]

\* Node::ensure_child_remove, lines 289-291: the first key of the right
\* sibling goes up to keys[index], the old keys[index] goes down to the end of
\* the child at index
move_key_from_right(self, index) ==
    LET sib == At(self.children, index + 1)
        child == At(self.children, index)
    IN
    IF Len(sib.keys) = 0
    THEN [node |-> self, index |-> index, panic |-> TRUE]
    ELSE [node |->
            [keys |-> VecSet(self.keys, index, At(sib.keys, 0)),
             children |->
               VecSet(VecSet(self.children, index + 1,
                             [sib EXCEPT !.keys = VecRemove(@, 0)]),
                      index,
                      [child EXCEPT !.keys = Append(@, At(self.keys, index))])],
          index |-> index, panic |-> FALSE]

\* A variant of steal_from_right with a slip: nothing is moved
steal_nothing(self, index, is_internal) ==
    [node |-> self, index |-> index, panic |-> FALSE]

\* Node::ensure_child_remove, lines 282-291: steal the leftmost item of the
\* right sibling (children[index + 1])
steal_from_right(self, index, is_internal) ==
    IF is_internal /\ Len(At(self.children, index + 1).children) = 0
    THEN [node |-> self, index |-> index, panic |-> TRUE]
    ELSE IF is_internal
    THEN move_key_from_right(move_child_from_right(self, index), index)
    ELSE move_key_from_right(self, index)

\* Node::ensure_child_remove, lines 292-298 and 303: after merge_children
\* has returned m, the child at index is the one to go on in
merged_child(m, index) ==
    [node |-> m.node, index |-> index,
     panic |-> m.panic \/ index >= Len(m.node.children)]

\* Node::ensure_child_remove, line 255: the child whose size is read as the
\* size of the left sibling
left_sibling_read(index) == index + 1

\* Node::ensure_child_remove.  The result is the node with the child made
\* ready, the index of that child, and whether the call panicked.
ensure_child_remove(self, mn, index) ==
    LET Panic == [node |-> self, index |-> index, panic |-> TRUE] IN
    IF ~(~is_leaf(self) /\ index <= Len(self.keys)) \/ index >= Len(self.children)
    THEN Panic
    ELSE IF Len(At(self.children, index).keys) > mn
    THEN [node |-> self, index |-> index, panic |-> FALSE]
    ELSE IF Len(At(self.children, index).keys) # mn
    THEN Panic
    ELSE
      LET is_internal == ~is_leaf(At(self.children, index))
          has_left == index >= 1
          has_right == index < Len(self.keys)
          li == left_sibling_read(index)
      IN
      \* lines 254-260: the read of the left sibling
      IF has_left /\ (li >= Len(self.children)
                      \/ (~is_leaf(At(self.children, li))) # is_internal)
      THEN Panic
      \* lines 262-268: the read of the right sibling
      ELSE IF has_right /\ (index + 1 >= Len(self.children)
                      \/ (~is_leaf(At(self.children, index + 1))) # is_internal)
      THEN Panic
      ELSE
        LET left_size == IF has_left THEN Len(At(self.children, li).keys) ELSE 0
            right_size == IF has_right
                          THEN Len(At(self.children, index + 1).keys) ELSE 0
        IN
        IF ~(left_size > 0 \/ right_size > 0)
        THEN Panic
        ELSE IF left_size > mn
        THEN steal_from_left(self, index, is_internal)
        ELSE IF right_size > mn
        THEN steal_from_right(self, index, is_internal)
        ELSE IF left_size = mn
        THEN merged_child(merge_children(self, mn, index - 1), index - 1)
        ELSE IF right_size = mn
        THEN merged_child(merge_children(self, mn, index), index)
        ELSE Panic

\* A loop that has gone on in children[index] of `parent` and has left the
\* result r there: the child was edited in place (node = ....as_mut())
in_child(parent, index, r) ==
    [r EXCEPT !.node = [parent EXCEPT !.children = VecSet(@, index, r.node)]]

\* Node::remove_min.  The result is the subtree that is left, the key removed
\* (0 when the call panicked) and whether the call panicked.
RECURSIVE remove_min(_, _)
\* Node::remove_min, line 337, with e the result of ensure_child_remove
remove_min_in(e, mn) ==
    IF e.panic
    THEN [node |-> e.node, key |-> 0, panic |-> TRUE]
    ELSE in_child(e.node, e.index, remove_min(At(e.node.children, e.index), mn))

remove_min(node, mn) ==
    IF ~(Len(node.keys) > mn)
    THEN [node |-> node, key |-> 0, panic |-> TRUE]
    ELSE IF is_leaf(node)
    THEN [node |-> [node EXCEPT !.keys = VecRemove(@, 0)],
          key |-> At(node.keys, 0), panic |-> FALSE]
    ELSE remove_min_in(ensure_child_remove(node, mn, 0), mn)

\* Node::remove_max
RECURSIVE remove_max(_, _)
\* Node::remove_max, line 354, with e the result of ensure_child_remove
remove_max_in(e, mn) ==
    IF e.panic
    THEN [node |-> e.node, key |-> 0, panic |-> TRUE]
    ELSE in_child(e.node, e.index, remove_max(At(e.node.children, e.index), mn))

remove_max(node, mn) ==
    IF ~(Len(node.keys) > mn)
    THEN [node |-> node, key |-> 0, panic |-> TRUE]
    ELSE IF is_leaf(node)
    THEN [node |-> [node EXCEPT !.keys = VecPop(@)],
          key |-> VecLast(node.keys), panic |-> FALSE]
    ELSE remove_max_in(ensure_child_remove(node, mn, Len(node.children) - 1), mn)

\* ------------------------------------------------------------------ Btree
\* A Btree value: the four fields of the struct.
Btree(r, s, mn, mx) == [root |-> r, size |-> s, min_keys |-> mn, max_keys |-> mx]

\* Btree::new, for a degree that passes its two assertions
new(degree) == Btree(NodeNew, 0, degree - 1, degree * 2 - 1)

\* What the variables hold when no Btree was produced; it is never read
NoBtree == Btree(NodeNew, 0, 0, 0)

\* Btree::new, with its first assertion (line 23).  The result is the Btree
\* and whether the call panicked.  The second assertion (line 24) passes for
\* every degree drawn here, far below usize::MAX / 2.
new_call(degree) ==
    IF degree >= 2
    THEN [self |-> new(degree), panic |-> FALSE]
    ELSE [self |-> NoBtree, panic |-> TRUE]

is_empty(self) == self.size = 0

len(self) == self.size

\* A variant of clear with a slip: the degree is forgotten
clear_to_degree_two(self) == new(2)

\* A variant of clear with a slip: the root is reset and the size is kept
clear_root_only(self) == [self EXCEPT !.root = NodeNew]

\* Btree::clear
clear(self) == new(self.min_keys + 1)

\* A variant of contains_descend with a slip: the child one to the left
contains_descend_left(node, index) ==
    At(node.children, IF index > 0 THEN index - 1 ELSE 0)

\* Btree::contains, line 60: the child the walk goes on in
contains_descend(node, index) == At(node.children, index)

\* Btree::contains, the loop from `node` on.  The result is the value
\* returned and whether the call panicked.
RECURSIVE contains_loop(_, _)
\* Btree::contains, lines 54-61, with s the result of the search in `node`
contains_at(node, s, val) ==
    IF s.found THEN [ret |-> TRUE, panic |-> FALSE]
    ELSE IF is_leaf(node) THEN [ret |-> FALSE, panic |-> FALSE]
    ELSE IF s.index >= Len(node.children) THEN [ret |-> FALSE, panic |-> TRUE]
    ELSE contains_loop(contains_descend(node, s.index), val)

contains_loop(node, val) == contains_at(node, search(node, val), val)

contains(self, val) == contains_loop(self.root, val)

\* A variant of leaf_insert with a slip: the key is pushed at the end
leaf_insert_at_end(node, index, val) == [node EXCEPT !.keys = Append(@, val)]

\* Btree::insert, line 89: the key goes into the leaf at the index found
leaf_insert(node, index, val) == [node EXCEPT !.keys = VecInsert(@, index, val)]

\* Btree::insert, lines 76-107: the loop from `node` on.  The result is the
\* subtree that is left, the value returned and whether the call panicked.
RECURSIVE insert_loop(_, _, _, _, _)
\* A variant of insert_after_split with a slip: a greater key goes on in the
\* child at index as well
insert_after_split_left(sp, index, val, mn, mx) ==
    IF sp.panic
    THEN [node |-> sp.node, ret |-> FALSE, panic |-> TRUE]
    ELSE IF val = At(sp.node.keys, index)
    THEN [node |-> sp.node, ret |-> FALSE, panic |-> FALSE]
    ELSE in_child(sp.node, index,
                  insert_loop(At(sp.node.children, index), FALSE, val, mn, mx))

\* Btree::insert, lines 97-104, with sp the result of split_child at index
insert_after_split(sp, index, val, mn, mx) ==
    IF sp.panic
    THEN [node |-> sp.node, ret |-> FALSE, panic |-> TRUE]
    ELSE IF val = At(sp.node.keys, index)
    THEN [node |-> sp.node, ret |-> FALSE, panic |-> FALSE]
    ELSE IF val > At(sp.node.keys, index)
    THEN in_child(sp.node, index + 1,
                  insert_loop(At(sp.node.children, index + 1), FALSE, val, mn, mx))
    ELSE in_child(sp.node, index,
                  insert_loop(At(sp.node.children, index), FALSE, val, mn, mx))

\* Btree::insert, lines 83-105, with s the result of the search in `node`
insert_at(node, s, val, mn, mx) ==
    IF s.found
    THEN [node |-> node, ret |-> FALSE, panic |-> FALSE]
    ELSE IF is_leaf(node)
    THEN [node |-> leaf_insert(node, s.index, val), ret |-> TRUE, panic |-> FALSE]
    ELSE IF s.index >= Len(node.children)
    THEN [node |-> node, ret |-> FALSE, panic |-> TRUE]
    ELSE IF Len(At(node.children, s.index).keys) = mx
    THEN insert_after_split(split_child(node, mn, mx, s.index), s.index,
                            val, mn, mx)
    ELSE in_child(node, s.index,
                  insert_loop(At(node.children, s.index), FALSE, val, mn, mx))

insert_loop(node, is_root, val, mn, mx) ==
    IF ~(Len(node.keys) < mx) \/ ~(is_root \/ Len(node.keys) >= mn)
    THEN [node |-> node, ret |-> FALSE, panic |-> TRUE]
    ELSE insert_at(node, search(node, val), val, mn, mx)

\* Btree::insert, lines 67-71: the split of a full root
split_root(self) ==
    IF Len(self.root.keys) = self.max_keys
    THEN IF ~NodeNewOk(self.max_keys)
         THEN [node |-> self.root, panic |-> TRUE]
         ELSE split_child([keys |-> <<>>, children |-> <<self.root>>],
                          self.min_keys, self.max_keys, 0)
    ELSE [node |-> self.root, panic |-> FALSE]

\* A variant of insert_returns with a slip: size is incremented whatever
\* the loop returned
insert_returns_counting(self, r) ==
    [self |-> [self EXCEPT !.root = r.node, !.size = @ + 1],
     ret |-> r.ret, panic |-> r.panic]

\* Btree::insert, lines 85, 90-91, 98: the Btree and the value returned, with
\* r the result of the loop
insert_returns(self, r) ==
    [self |-> [self EXCEPT !.root = r.node,
                           !.size = IF r.ret THEN @ + 1 ELSE @],
     ret |-> r.ret, panic |-> r.panic]

\* Btree::insert, lines 73-107, with sr the result of the split of the root
insert_from(self, sr, val) ==
    IF sr.panic
    THEN [self |-> [self EXCEPT !.root = sr.node], ret |-> FALSE, panic |-> TRUE]
    ELSE insert_returns(self, insert_loop(sr.node, TRUE, val,
                                          self.min_keys, self.max_keys))

\* Btree::insert.  The result is the Btree that is left, the value returned
\* and whether the call panicked.
insert(self, val) == insert_from(self, split_root(self), val)

\* Btree::remove_sub, lines 148-149 and 151-152: keys[index] is replaced by
\* the key that remove_max or remove_min has taken out of children[child],
\* with r the result of that call
replace_key(node, index, child, r) ==
    IF r.panic \/ index >= Len(node.keys)
    THEN [node |-> [node EXCEPT !.children = VecSet(@, child, r.node)],
          ret |-> FALSE, panic |-> TRUE]
    ELSE [node |-> [keys |-> VecSet(node.keys, index, r.key),
                    children |-> VecSet(node.children, child, r.node)],
          ret |-> TRUE, panic |-> FALSE]

\* Btree::remove_sub, lines 131-170: the loop from `node` on, with the
\* (found, index) of the search already made in `node`.  The result is the
\* subtree that is left, the value returned and whether the call panicked.
RECURSIVE remove_loop(_, _, _, _, _, _, _)
\* Btree::remove_sub, lines 155-158, with m the result of merge_children
remove_in_merged(m, index, val, mn, mx) ==
    IF m.panic
    THEN [node |-> m.node, ret |-> FALSE, panic |-> TRUE]
    ELSE in_child(m.node, index,
                  remove_loop(At(m.node.children, index), TRUE, mn, FALSE,
                              val, mn, mx))

\* Btree::remove_sub, lines 163-165, with s the result of the search in
\* children[index]
remove_searched(node, index, s, val, mn, mx) ==
    in_child(node, index,
             remove_loop(At(node.children, index), s.found, s.index, FALSE,
                         val, mn, mx))

\* Btree::remove_sub, lines 162-165, with e the result of ensure_child_remove
remove_in_child(e, val, mn, mx) ==
    IF e.panic
    THEN [node |-> e.node, ret |-> FALSE, panic |-> TRUE]
    ELSE remove_searched(e.node, e.index,
                         search(At(e.node.children, e.index), val), val, mn, mx)

remove_loop(node, found, index, is_root, val, mn, mx) ==
    LET Panic == [node |-> node, ret |-> FALSE, panic |-> TRUE] IN
    IF ~(Len(node.keys) <= mx) \/ ~(is_root \/ Len(node.keys) > mn)
    THEN Panic
    ELSE IF is_leaf(node)
    THEN IF found
         THEN IF index >= Len(node.keys)
              THEN Panic
              ELSE [node |-> [node EXCEPT !.keys = VecRemove(@, index)],
                    ret |-> TRUE, panic |-> FALSE]
         ELSE [node |-> node, ret |-> FALSE, panic |-> FALSE]
    ELSE IF found
    THEN
      IF index >= Len(node.children)
      THEN Panic
      ELSE IF Len(At(node.children, index).keys) > mn
      THEN \* replace the key with its predecessor
           replace_key(node, index, index,
                       remove_max(At(node.children, index), mn))
      ELSE IF index + 1 >= Len(node.children)
      THEN Panic
      ELSE IF Len(At(node.children, index + 1).keys) > mn
      THEN \* replace the key with its successor
           replace_key(node, index, index + 1,
                       remove_min(At(node.children, index + 1), mn))
      ELSE \* merge key and right node into left node, then go on in it
           remove_in_merged(merge_children(node, mn, index), index, val, mn, mx)
    ELSE \* the key might be found in some child
         remove_in_child(ensure_child_remove(node, mn, index), val, mn, mx)

\* Btree::remove_sub, lines 127-130, with s the result of the search in the
\* root
remove_sub_at(self, s, val) ==
    remove_loop(self.root, s.found, s.index, TRUE, val,
                self.min_keys, self.max_keys)

\* Btree::remove_sub.  The result is the root that is left, the value
\* returned and whether the call panicked.
remove_sub(self, val) == remove_sub_at(self, search(self.root, val), val)

\* A variant of remove_returns with a slip: a root without keys stays
remove_returns_without_collapse(self, r) ==
    IF r.panic \/ (r.ret /\ ~(self.size > 0))
    THEN [self |-> [self EXCEPT !.root = r.node], ret |-> FALSE, panic |-> TRUE]
    ELSE [self |-> [self EXCEPT !.root = r.node,
                                !.size = IF r.ret THEN @ - 1 ELSE @],
          ret |-> r.ret, panic |-> FALSE]

\* A variant of remove_returns with a slip: a root without keys is replaced
\* by its child only when the key was removed
remove_returns_collapse_if_found(self, r) ==
    IF r.panic \/ (r.ret /\ ~(self.size > 0))
    THEN [self |-> [self EXCEPT !.root = r.node], ret |-> FALSE, panic |-> TRUE]
    ELSE IF r.ret /\ Len(r.node.keys) = 0 /\ ~is_leaf(r.node)
    THEN IF Len(r.node.children) # 1
         THEN [self |-> [self EXCEPT !.root = r.node, !.size = @ - 1],
               ret |-> FALSE, panic |-> TRUE]
         ELSE [self |-> [self EXCEPT !.root = VecLast(r.node.children),
                                     !.size = @ - 1],
               ret |-> r.ret, panic |-> FALSE]
    ELSE [self |-> [self EXCEPT !.root = r.node,
                                !.size = IF r.ret THEN @ - 1 ELSE @],
          ret |-> r.ret, panic |-> FALSE]

\* Btree::remove, lines 113-123, with r the result of remove_sub
remove_returns(self, r) ==
    LET size1 == IF r.ret THEN self.size - 1 ELSE self.size IN
    IF r.panic \/ (r.ret /\ ~(self.size > 0))
    THEN [self |-> [self EXCEPT !.root = r.node], ret |-> FALSE, panic |-> TRUE]
    ELSE IF Len(r.node.keys) = 0 /\ ~is_leaf(r.node)
    THEN IF Len(r.node.children) # 1
         THEN [self |-> [self EXCEPT !.root = r.node, !.size = size1],
               ret |-> FALSE, panic |-> TRUE]
         ELSE [self |-> [self EXCEPT !.root = VecLast(r.node.children),
                                     !.size = size1],
               ret |-> r.ret, panic |-> FALSE]
    ELSE [self |-> [self EXCEPT !.root = r.node, !.size = size1],
          ret |-> r.ret, panic |-> FALSE]

\* Btree::remove.  The result is the Btree that is left, the value returned
\* and whether the call panicked.
remove(self, val) == remove_returns(self, remove_sub(self, val))

\* ------------------------------------------------------------ the program
\* The Btree held by the program
Self == Btree(root, size, min_keys, max_keys)

\* The fields of the Btree become those of b
Store(b) ==
    /\ root' = b.root
    /\ size' = b.size
    /\ min_keys' = b.min_keys
    /\ max_keys' = b.max_keys

\* The fields of the Btree are those of b
Holds(b) ==
    /\ root = b.root
    /\ size = b.size
    /\ min_keys = b.min_keys
    /\ max_keys = b.max_keys

Init ==
    /\ \E degree \in Degrees : Holds(new(degree))
    /\ panicked = FALSE
    /\ model = {}
    /\ last = [op |-> "new", ret |-> FALSE]
    /\ OthersAtRest("btree")

\* A call of insert or remove ends with the result r: the Btree is left as
\* the call left it; when the call returned true the reference set becomes m
Ends(op, r, m) ==
    /\ Store(r.self)
    /\ panicked' = r.panic
    /\ model' = IF r.ret THEN m ELSE model
    /\ last' = [op |-> op, ret |-> r.ret]
    /\ UNCHANGED not_btree

\* A call of insert(val)
Insert(val) ==
    /\ ~panicked
    /\ Ends("insert", insert(Self, val), model \cup {val})

\* A call of remove(&val)
Remove(val) ==
    /\ ~panicked
    /\ Ends("remove", remove(Self, val), model \ {val})

\* A call of contains ends with the result r
ContainsEnds(r) ==
    /\ panicked' = r.panic
    /\ last' = [op |-> "contains", ret |-> r.ret]
    /\ UNCHANGED <<root, size, min_keys, max_keys, model>>
    /\ UNCHANGED not_btree

\* A call of contains(&val)
Contains(val) ==
    /\ ~panicked
    /\ ContainsEnds(contains(Self, val))

\* A call of clear()
Clear ==
    /\ ~panicked
    /\ Store(clear(Self))
    /\ model' = {}
    /\ last' = [op |-> "clear", ret |-> FALSE]
    /\ UNCHANGED <<panicked, not_btree>>

Next ==
    \/ \E val \in Keys : Insert(val)
    \/ \E val \in Keys : Remove(val)
    \/ \E val \in Keys : Contains(val)
    \/ Clear

Spec == Init /\ [][Next]_vars

\* ------------------------------------------------- the program, Node
\* Node::ensure_child_remove on its own: the call is made on a copy of the
\* root of a tree that insert, remove, contains and clear have built, with
\* the min_keys of the tree and an index of a child of the root.  The call
\* and its result are kept in `ensured`; the tree is not used any further.
not_node == <<btree_vars, lru_vars, queue_vars, pq_vars, uf_vars, bs_vars,
              bag_vars, list_vars>>

EnsureChildRemove(index) ==
    /\ ~panicked /\ ensured.op = "none"
    /\ ~is_leaf(root) /\ index <= Len(root.keys)
    /\ ensured' = [op |-> "ensure_child_remove", index |-> index,
                   r |-> ensure_child_remove(root, min_keys, index)]
    /\ UNCHANGED not_node

\* Node::split_child on its own, called as insert calls it: on a new root
\* that holds the full root as its only child (lines 67-71), or on the root
\* itself, which is not full then (lines 94-96)
split_parent(node, mx) ==
    IF Len(node.keys) = mx
    THEN [keys |-> <<>>, children |-> <<node>>]
    ELSE node

SplitChild(index) ==
    /\ ~panicked /\ ensured.op = "none"
    /\ ~is_leaf(split_parent(root, max_keys))
    /\ index <= Len(split_parent(root, max_keys).keys)
    /\ ensured' = [op |-> "split_child", index |-> index,
                   parent |-> split_parent(root, max_keys),
                   r |-> split_child(split_parent(root, max_keys),
                                     min_keys, max_keys, index)]
    /\ UNCHANGED not_node

\* Node::merge_children on its own, on a copy of the root and the index of
\* one of its keys
MergeChildren(index) ==
    /\ ~panicked /\ ensured.op = "none"
    /\ ~is_leaf(root) /\ index < Len(root.keys)
    /\ ensured' = [op |-> "merge_children", index |-> index,
                   r |-> merge_children(root, min_keys, index)]
    /\ UNCHANGED not_node

NextNode ==
    \/ ensured.op = "none" /\ Next
    \/ \E index \in 0..max_keys : EnsureChildRemove(index)
    \/ \E index \in 0..max_keys : SplitChild(index)
    \/ \E index \in 0..max_keys : MergeChildren(index)

SpecNode == Init /\ [][NextNode]_vars

\* The program that calls insert and contains only
NextInsertOnly ==
    \/ \E val \in Keys : Insert(val)
    \/ \E val \in Keys : Contains(val)

SpecInsertOnly == Init /\ [][NextInsertOnly]_vars

\* Btree::insert and Btree::remove on their own: the call is made on a copy
\* of a tree that insert, remove, contains and clear have built.  The call
\* and its result (for remove, the result of its remove_sub too) are kept
\* in `ensured`; the tree is not used any further.
InsertCall(val) ==
    /\ ~panicked /\ ensured.op = "none"
    /\ ensured' = [op |-> "insert", val |-> val,
                   r |-> insert(Self, val)]
    /\ UNCHANGED not_node

RemoveCall(val) ==
    /\ ~panicked /\ ensured.op = "none"
    /\ ensured' = [op |-> "remove", val |-> val,
                   sub |-> remove_sub(Self, val),
                   r |-> remove(Self, val)]
    /\ UNCHANGED not_node

NextCalls ==
    \/ ensured.op = "none" /\ Next
    \/ \E val \in Keys : InsertCall(val)
    \/ \E val \in Keys : RemoveCall(val)

SpecCalls == Init /\ [][NextCalls]_vars

\* ================================================================ LRUCache
\* src/lru/src/lib.rs.  An LRUCache is the record [entries, head, tail,
\* length]; an Entry is [val, prev, next].  The capacity is that of the array
\* type A.  A function that edits the cache returns the cache it leaves and
\* a flag `panic`, TRUE when the function does not return: an index out of
\* bounds, a failing assert!, a push on a full ArrayVec, or an iteration that
\* never reaches the tail.

\* The capacity is drawn from 0..MaxCapacity, the values from 1..MaxVal.
MaxCapacity == 3
MaxVal == 2

Capacities == 0..MaxCapacity
Vals == 1..MaxVal

\* LRUCache::default
lru_default == [entries |-> <<>>, head |-> 0, tail |-> 0, length |-> 0]

lru_len(c) == c.length

lru_is_empty(c) == c.length = 0

\* LRUCache::front
lru_front(c) ==
    IF c.head < Len(c.entries) THEN Some(At(c.entries, c.head).val) ELSE None

\* entries[i].next = n and entries[i].prev = p
set_next(entries, i, n) == VecSet(entries, i, [At(entries, i) EXCEPT !.next = n])
set_prev(entries, i, p) == VecSet(entries, i, [At(entries, i) EXCEPT !.prev = p])

\* A variant of push_front with a slip: the old head keeps its prev
push_front_one_way(c, index) ==
    IF Len(c.entries) = 1
    THEN [cache |-> [c EXCEPT !.tail = index, !.head = index], panic |-> FALSE]
    ELSE IF index >= Len(c.entries)
    THEN [cache |-> c, panic |-> TRUE]
    ELSE [cache |-> [c EXCEPT !.entries = set_next(@, index, c.head),
                              !.head = index],
          panic |-> FALSE]

\* LRUCache::push_front
push_front(c, index) ==
    IF Len(c.entries) = 1
    THEN [cache |-> [c EXCEPT !.tail = index, !.head = index], panic |-> FALSE]
    ELSE IF index >= Len(c.entries)
    THEN [cache |-> c, panic |-> TRUE]
    ELSE IF c.head >= Len(c.entries)
    THEN [cache |-> [c EXCEPT !.entries = set_next(@, index, c.head)],
          panic |-> TRUE]
    ELSE [cache |-> [c EXCEPT
                       !.entries = set_prev(set_next(@, index, c.head),
                                            c.head, index),
                       !.head = index],
          panic |-> FALSE]

\* LRUCache::pop_back.  The result also holds the index returned.
pop_back(c) ==
    IF c.tail >= Len(c.entries)
    THEN [cache |-> c, index |-> c.tail, panic |-> TRUE]
    ELSE [cache |-> [c EXCEPT !.tail = At(c.entries, c.tail).prev],
          index |-> c.tail, panic |-> FALSE]

\* A variant of unlink_prev with a slip: the tail stays where it is
unlink_prev_keeping_tail(c, index, prev, next) ==
    IF index = c.tail
    THEN [cache |-> [c EXCEPT !.length = @ - 1], panic |-> FALSE]
    ELSE IF next >= Len(c.entries)
    THEN [cache |-> c, panic |-> TRUE]
    ELSE [cache |-> [c EXCEPT !.entries = set_prev(@, next, prev),
                              !.length = @ - 1],
          panic |-> FALSE]

\* LRUCache::remove, lines 244-250, with prev and next as read at lines
\* 235-236 and c the cache after lines 238-242
unlink_prev(c, index, prev, next) ==
    IF index = c.tail
    THEN [cache |-> [c EXCEPT !.tail = prev, !.length = @ - 1],
          panic |-> FALSE]
    ELSE IF next >= Len(c.entries)
    THEN [cache |-> c, panic |-> TRUE]
    ELSE [cache |-> [c EXCEPT !.entries = set_prev(@, next, prev),
                              !.length = @ - 1],
          panic |-> FALSE]

\* LRUCache::remove, lines 238-250, with prev and next as read at lines
\* 235-236
unlink(c, index, prev, next) ==
    IF index = c.head
    THEN unlink_prev([c EXCEPT !.head = next], index, prev, next)
    ELSE IF prev >= Len(c.entries)
    THEN [cache |-> c, panic |-> TRUE]
    ELSE unlink_prev([c EXCEPT !.entries = set_next(@, prev, next)],
                     index, prev, next)

\* LRUCache::remove
lru_remove(c, index) ==
    IF ~(c.length > 0) \/ index >= Len(c.entries)
    THEN [cache |-> c, panic |-> TRUE]
    ELSE unlink(c, index, At(c.entries, index).prev, At(c.entries, index).next)

\* LRUCache::touch_index, lines 143-144, with r the result of remove
touch_removed(r, index) ==
    IF r.panic
    THEN r
    ELSE push_front([r.cache EXCEPT !.length = @ + 1], index)

\* LRUCache::touch_index
touch_index(c, index) ==
    IF index # c.head
    THEN touch_removed(lru_remove(c, index), index)
    ELSE [cache |-> c, panic |-> FALSE]

\* LRUCache::insert, lines 175-179 and 186, with pb the result of pop_back
insert_over_oldest(pb, val) ==
    IF pb.panic
    THEN [cache |-> pb.cache, panic |-> TRUE]
    ELSE push_front([pb.cache EXCEPT
                       !.entries = VecSet(@, pb.index,
                                          [val |-> val, prev |-> 0, next |-> 0])],
                    pb.index)

\* LRUCache::insert
lru_insert(c, cap, val) ==
    IF c.length = cap
    THEN insert_over_oldest(pop_back(c), val)
    ELSE IF Len(c.entries) >= cap
    THEN \* ArrayVec::push on a full array
         [cache |-> c, panic |-> TRUE]
    ELSE push_front([c EXCEPT
                       !.entries = Append(@, [val |-> val, prev |-> 0, next |-> 0]),
                       !.length = @ + 1],
                    Len(c.entries))

\* LRUCache::clear
lru_clear(c) == [entries |-> <<>>, head |-> 0, tail |-> 0, length |-> 0]

\* IterMut, from the position pos on: the (index, value) pairs that next()
\* yields, as a sequence, and whether the iteration does not return.  `more`
\* is the number of entries not yet visited: an iteration that visits more
\* entries than there are goes round for ever.
RECURSIVE iter_from(_, _, _, _)
iter_from(c, pos, done, more) ==
    IF done
    THEN [pairs |-> <<>>, panic |-> FALSE]
    ELSE IF pos >= Len(c.entries) \/ more = 0
    THEN [pairs |-> <<>>, panic |-> TRUE]
    ELSE [iter_from(c, At(c.entries, pos).next, pos = c.tail, more - 1)
            EXCEPT !.pairs = <<<<pos, At(c.entries, pos).val>>>> \o @]

\* LRUCache::iter_mut, run to its end
iter_mut(c) == iter_from(c, c.head, lru_is_empty(c), Len(c.entries))

\* Iterator::find over iter_mut: the first pair whose value is in pred.  The
\* iteration stops there; it panics only when no pair before matches.
RECURSIVE find_from(_, _, _, _, _)
find_from(c, pos, done, more, pred) ==
    IF done
    THEN [hit |-> FALSE, index |-> 0, val |-> 0, panic |-> FALSE]
    ELSE IF pos >= Len(c.entries) \/ more = 0
    THEN [hit |-> FALSE, index |-> 0, val |-> 0, panic |-> TRUE]
    ELSE IF At(c.entries, pos).val \in pred
    THEN [hit |-> TRUE, index |-> pos, val |-> At(c.entries, pos).val,
          panic |-> FALSE]
    ELSE find_from(c, At(c.entries, pos).next, pos = c.tail, more - 1, pred)

lru_find(c, pred) ==
    find_from(c, c.head, lru_is_empty(c), Len(c.entries), pred)

\* LRUCache::touch, lines 128-132, with f the result of the find and t the
\* result of touch_index on a hit.  The result holds the value returned.
touch_ends(f, t) ==
    [cache |-> t.cache, ret |-> f.hit /\ ~f.panic /\ ~t.panic,
     panic |-> f.panic \/ t.panic]

touch_found(c, f) ==
    IF f.hit
    THEN touch_ends(f, touch_index(c, f.index))
    ELSE touch_ends(f, [cache |-> c, panic |-> FALSE])

\* LRUCache::touch; a predicate is the set of the values it holds of
touch(c, pred) == touch_found(c, lru_find(c, pred))

\* LRUCache::lookup, with t the result of the same walk as touch; on a hit
\* the predicate returns Some(the value it matched)
lookup_ends(f, t) ==
    [cache |-> t.cache, panic |-> t.panic,
     ret |-> IF t.ret THEN Some(f.val) ELSE None]

lookup_found(c, f) == lookup_ends(f, touch_found(c, f))

\* LRUCache::lookup
lookup(c, pred) == lookup_found(c, lru_find(c, pred))

\* LRUCache::fetch, with t the result of touch
fetch_ends(t) ==
    [cache |-> t.cache, panic |-> t.panic,
     ret |-> IF t.ret THEN lru_front(t.cache) ELSE None]

\* LRUCache::fetch
fetch(c, pred) == fetch_ends(touch(c, pred))

\* ------------------------------------------------- the program, LRUCache
\* The predicates that the calls of touch, lookup and fetch are given
Preds == SUBSET Vals

InitLRU ==
    /\ cache = lru_default
    /\ capacity \in Capacities
    /\ lru_panicked = FALSE
    /\ lru_last = [op |-> "default", ret |-> None]
    /\ OthersAtRest("lru")

\* A call on the cache ends with the result r and the value ret
LRUEnds(op, r, ret) ==
    /\ cache' = r.cache
    /\ lru_panicked' = r.panic
    /\ lru_last' = [op |-> op, ret |-> ret]
    /\ UNCHANGED <<capacity, not_lru>>

\* A call of insert(val)
LRUInsert(val) ==
    /\ ~lru_panicked
    /\ LRUEnds("insert", lru_insert(cache, capacity, val), None)

\* A call of touch, lookup or fetch ends with the result r
LRUFinds(op, r) ==
    /\ ~lru_panicked
    /\ LRUEnds(op, r, r.ret)

LRUTouch(pred) == LRUFinds("touch", touch(cache, pred))

LRULookup(pred) == LRUFinds("lookup", lookup(cache, pred))

LRUFetch(pred) == LRUFinds("fetch", fetch(cache, pred))

\* A call of clear()
LRUClear ==
    /\ ~lru_panicked
    /\ LRUEnds("clear", [cache |-> lru_clear(cache), panic |-> FALSE], None)

NextLRU ==
    \/ \E val \in Vals : LRUInsert(val)
    \/ \E pred \in Preds : LRUTouch(pred)
    \/ \E pred \in Preds : LRULookup(pred)
    \/ \E pred \in Preds : LRUFetch(pred)
    \/ LRUClear

SpecLRU == InitLRU /\ [][NextLRU]_vars

\* The values of the cache in the order of the iteration (the function
\* `items` of the tests)
values_of(pairs) == [i \in 1..Len(pairs) |-> pairs[i][2]]

items(c) == values_of(iter_mut(c).pairs)

\* =================================================================== Queue
\* src/queue/src/lib.rs.  A Queue is the record [older, newer] of two Vecs.

\* A queue holds up to MaxQueueLen elements, drawn from 1..MaxVal.
MaxQueueLen == 4

\* Queue::new
queue_new == [older |-> <<>>, newer |-> <<>>]

\* Queue::push
queue_push(q, t) == [q EXCEPT !.newer = Append(@, t)]

\* Queue::is_empty
queue_is_empty(q) == Len(q.older) = 0 /\ Len(q.newer) = 0

\* Vec::reverse
RECURSIVE Reverse(_)
Reverse(v) == IF v = <<>> THEN <<>> ELSE Append(Reverse(Tail(v)), Head(v))

\* A variant of swap_and_reverse with a slip: the reverse is left out
swap_only(q) == [older |-> q.newer, newer |-> q.older]

\* Queue::pop, lines 27-28
swap_and_reverse(q) == [older |-> Reverse(q.newer), newer |-> q.older]

\* Queue::pop, line 31: Vec::pop on older.  The result is the queue that is
\* left and the value returned.
pop_older(q) ==
    IF Len(q.older) = 0
    THEN [queue |-> q, ret |-> None]
    ELSE [queue |-> [q EXCEPT !.older = VecPop(@)], ret |-> Some(VecLast(q.older))]

\* Queue::pop
queue_pop(q) ==
    IF Len(q.older) = 0
    THEN IF Len(q.newer) = 0
         THEN [queue |-> q, ret |-> None]
         ELSE pop_older(swap_and_reverse(q))
    ELSE pop_older(q)

\* ---------------------------------------------------- the program, Queue
InitQueue ==
    /\ queue = queue_new
    /\ fifo = <<>>
    /\ queue_last = [op |-> "new", ret |-> None]
    /\ OthersAtRest("queue")

\* A call of push(t); the element joins the elements waiting, as the newest
QueuePush(t) ==
    /\ Len(fifo) < MaxQueueLen
    /\ queue' = queue_push(queue, t)
    /\ fifo' = Append(fifo, t)
    /\ queue_last' = [op |-> "push", ret |-> None]
    /\ UNCHANGED not_queue

\* A call of pop() ends with the result r; the oldest of the elements
\* waiting, if there is one, waits no more
QueuePopEnds(r) ==
    /\ queue' = r.queue
    /\ fifo' = IF fifo = <<>> THEN fifo ELSE Tail(fifo)
    /\ queue_last' = [op |-> "pop", ret |-> r.ret]
    /\ UNCHANGED not_queue

QueuePop == QueuePopEnds(queue_pop(queue))

NextQueue ==
    \/ \E t \in Vals : QueuePush(t)
    \/ QueuePop

SpecQueue == InitQueue /\ [][NextQueue]_vars

\* =========================================================== PriorityQueue
\* src/priority-queue/src/lib.rs.  A PriorityQueue is the record [storage,
\* comparator]; the comparator is "default" (a.cmp(b), the max heap of
\* Default) or "reversed" (b.cmp(a), the comparator of the tests of
\* new_with).  No index of these functions leaves the storage: insert and
\* pop always return.

\* A priority queue holds up to MaxHeapLen elements, drawn from 1..MaxElem.
MaxHeapLen == 5
MaxElem == 3

Elems == 1..MaxElem

\* Ord::cmp on integers
cmp(a, b) == IF a < b THEN "Less" ELSE IF a = b THEN "Equal" ELSE "Greater"

\* (self.comparator)(a, b)
compare(q, a, b) == IF q.comparator = "default" THEN cmp(a, b) ELSE cmp(b, a)

\* PriorityQueue::default and PriorityQueue::new_with
pq_new_with(comparator) == [storage |-> <<>>, comparator |-> comparator]

\* PriorityQueue::peek
peek(q) == IF Len(q.storage) = 0 THEN None ELSE Some(At(q.storage, 0))

\* PriorityQueue::len
pq_len(q) == Len(q.storage)

\* Vec::swap
swap(v, i, j) == [v EXCEPT ![i + 1] = v[j + 1], ![j + 1] = v[i + 1]]

\* PriorityQueue::bubble_up
RECURSIVE bubble_up(_, _, _)
bubble_up(q, start, pos) ==
    IF pos > start
       /\ compare(q, At(q.storage, pos), At(q.storage, (pos - 1) \div 2)) = "Greater"
    THEN bubble_up([q EXCEPT !.storage = swap(@, pos, (pos - 1) \div 2)],
                   start, (pos - 1) \div 2)
    ELSE q

\* A variant of higher_child with a slip: the right child is never looked at
higher_child_left(q, child, end) == child

\* PriorityQueue::sift_down, lines 88-95: the child of higher priority
higher_child(q, child, end) ==
    IF child + 1 <= end
       /\ compare(q, At(q.storage, child), At(q.storage, child + 1)) # "Greater"
    THEN child + 1
    ELSE child

\* PriorityQueue::sift_down, lines 87-104: the loop
RECURSIVE sift_loop(_, _, _, _)
\* PriorityQueue::sift_down, lines 97-103, with the child of higher priority
sift_step(q, pos, child, end) ==
    IF compare(q, At(q.storage, pos), At(q.storage, child)) = "Less"
    THEN sift_loop([q EXCEPT !.storage = swap(@, pos, child)],
                   child, 2 * child + 1, end)
    ELSE q

sift_loop(q, pos, child, end) ==
    IF child <= end
    THEN sift_step(q, pos, higher_child(q, child, end), end)
    ELSE q

\* PriorityQueue::sift_down
sift_down(q, pos) == sift_loop(q, pos, 2 * pos + 1, pq_len(q) - 1)

\* PriorityQueue::insert
pq_insert(q, value) ==
    bubble_up([q EXCEPT !.storage = Append(@, value)], 0, Len(q.storage))

\* Vec::swap_remove(0) on a vector of two elements or more: the vector left
swap_remove_first(v) == VecSet(VecPop(v), 0, VecLast(v))

\* PriorityQueue::pop.  The result is the queue that is left and the value
\* returned.
pq_pop(q) ==
    IF pq_len(q) = 0
    THEN [pq |-> q, ret |-> None]
    ELSE IF pq_len(q) = 1
    THEN [pq |-> [q EXCEPT !.storage = <<>>], ret |-> Some(At(q.storage, 0))]
    ELSE [pq |-> sift_down([q EXCEPT !.storage = swap_remove_first(@)], 0),
          ret |-> Some(At(q.storage, 0))]

\* -------------------------------------------- the program, PriorityQueue
InitPQ ==
    /\ \E comparator \in {"default", "reversed"} : pq = pq_new_with(comparator)
    /\ pq_last = [op |-> "new", ret |-> None]
    /\ OthersAtRest("pq")

\* A call of insert(value)
PQInsert(value) ==
    /\ pq_len(pq) < MaxHeapLen
    /\ pq' = pq_insert(pq, value)
    /\ pq_last' = [op |-> "insert", ret |-> None]
    /\ UNCHANGED not_pq

\* A call of pop() ends with the result r
PQPopEnds(r) ==
    /\ pq' = r.pq
    /\ pq_last' = [op |-> "pop", ret |-> r.ret]
    /\ UNCHANGED not_pq

PQPop == PQPopEnds(pq_pop(pq))

\* A call of peek()
PQPeek ==
    /\ pq_last' = [op |-> "peek", ret |-> peek(pq)]
    /\ UNCHANGED <<pq, not_pq>>

NextPQ ==
    \/ \E value \in Elems : PQInsert(value)
    \/ PQPop
    \/ PQPeek

SpecPQ == InitPQ /\ [][NextPQ]_vars

\* =============================================================== UnionFind
\* src/union-find/src/lib.rs.  A UnionFind is the record [mappings]; a
\* mapping is the pair <<parent, size>>.  find and union return the
\* UnionFind they leave, the value returned and a flag `panic`, TRUE when
\* the call does not return: an index out of bounds, or a recursion of find
\* that goes round a cycle of parents until the stack overflows.

\* UnionFind::new(size) is called with a size from 1 to MaxSize; union is
\* called up to MaxUnions times (with the sizes that union adds up, the
\* states would be without end otherwise).
MaxSize == 5
MaxUnions == 4

\* UnionFind::new
uf_new(n) == [mappings |-> [i \in 1..n |-> <<i - 1, 1>>]]

\* the parent and the size of the group, of the mapping at idx
parent_of(u, idx) == At(u.mappings, idx)[1]
size_of(u, idx) == At(u.mappings, idx)[2]

\* UnionFind::find.  `depth` is the number of calls that the recursion may
\* still make: a chain of parents without a cycle is no longer than the
\* mappings.
RECURSIVE find_in(_, _, _)
\* UnionFind::find, lines 25 and 28, with r the result of find(parent)
find_returns(r, idx, parent) ==
    IF r.panic
    THEN r
    ELSE IF r.ret >= Len(r.uf.mappings)
    THEN [r EXCEPT !.panic = TRUE]
    ELSE [r EXCEPT !.uf.mappings = VecSet(@, idx, At(@, r.ret)),
                   !.ret = parent]

find_in(u, idx, depth) ==
    IF idx >= Len(u.mappings) \/ depth = 0
    THEN [uf |-> u, ret |-> idx, panic |-> TRUE]
    ELSE IF parent_of(u, idx) # idx
    THEN find_returns(find_in(u, parent_of(u, idx), depth - 1),
                      idx, parent_of(u, idx))
    ELSE [uf |-> u, ret |-> parent_of(u, idx), panic |-> FALSE]

find(u, idx) == find_in(u, idx, Len(u.mappings))

\* UnionFind::union, lines 39-52, with the two roots found
merge_roots(u, a_root, b_root) ==
    IF a_root = b_root
    THEN [uf |-> u, panic |-> FALSE]
    ELSE IF a_root >= Len(u.mappings) \/ b_root >= Len(u.mappings)
    THEN [uf |-> u, panic |-> TRUE]
    ELSE IF size_of(u, a_root) < size_of(u, b_root)
    THEN [uf |-> [mappings |->
                    VecSet(VecSet(u.mappings, a_root,
                                  <<b_root, size_of(u, a_root) + size_of(u, b_root)>>),
                           b_root,
                           <<b_root, size_of(u, a_root) + size_of(u, b_root)>>)],
          panic |-> FALSE]
    ELSE [uf |-> [mappings |->
                    VecSet(VecSet(u.mappings, a_root,
                                  <<a_root, size_of(u, a_root) + size_of(u, b_root)>>),
                           b_root,
                           <<a_root, size_of(u, a_root) + size_of(u, b_root)>>)],
          panic |-> FALSE]

\* UnionFind::union, lines 37-52, with fa the result of find(a) and then fb
\* the result of find(b)
union_found(fa, fb) ==
    IF fb.panic
    THEN [uf |-> fb.uf, panic |-> TRUE]
    ELSE merge_roots(fb.uf, fa.ret, fb.ret)

union_from(fa, b) ==
    IF fa.panic
    THEN [uf |-> fa.uf, panic |-> TRUE]
    ELSE union_found(fa, find(fa.uf, b))

\* UnionFind::union
union(u, a, b) == union_from(find(u, a), b)

\* ------------------------------------------------ the program, UnionFind
\* The indices of the elements
Indices == 0..(Len(uf.mappings) - 1)

InitUF ==
    /\ \E n \in 1..MaxSize :
          /\ uf = uf_new(n)
          /\ uf_joined = {{i} : i \in 0..(n - 1)}
    /\ uf_unions = 0
    /\ uf_panicked = FALSE
    /\ uf_last = [op |-> "new", ret |-> None]
    /\ OthersAtRest("uf")

\* The groups after a call of union(a, b): the groups of a and b are one
Joined(groups, a, b) ==
    {g \in groups : a \notin g /\ b \notin g}
       \cup {UNION {g \in groups : a \in g \/ b \in g}}

\* A call of union(a, b) ends with the result r
UFUnionEnds(r, a, b) ==
    /\ uf' = r.uf
    /\ uf_panicked' = r.panic
    /\ uf_joined' = IF r.panic THEN uf_joined ELSE Joined(uf_joined, a, b)
    /\ uf_last' = [op |-> "union", ret |-> None]
    /\ UNCHANGED not_uf

UFUnion(a, b) ==
    /\ ~uf_panicked
    /\ uf_unions < MaxUnions
    /\ uf_unions' = uf_unions + 1
    /\ UFUnionEnds(union(uf, a, b), a, b)

\* A call of find(idx) ends with the result r
UFFindEnds(r) ==
    /\ uf' = r.uf
    /\ uf_panicked' = r.panic
    /\ uf_last' = [op |-> "find", ret |-> IF r.panic THEN None ELSE Some(r.ret)]
    /\ UNCHANGED <<uf_joined, uf_unions, not_uf>>

UFFind(idx) ==
    /\ ~uf_panicked
    /\ UFFindEnds(find(uf, idx))

NextUF ==
    \/ \E a \in Indices, b \in Indices : UFUnion(a, b)
    \/ \E idx \in Indices : UFFind(idx)

SpecUF == InitUF /\ [][NextUF]_vars

\* ============================================================ BinarySearch
\* src/binary-search/src/lib.rs.  `left`, `right` and `mid` are usize: a
\* usize has UsizeBits bits here, and a Vec has at most MaxVecLen elements
\* (in Rust at most isize::MAX, less than half of the usize values).  A
\* subtraction below zero panics in a build with overflow checks (cargo's
\* dev and test profiles) and wraps around in one without (the release
\* profile): `checks` says which build the call runs in.
UsizeBits == 3
MaxVecLen == 3

UsizeValues == 2 ^ UsizeBits

\* Vec<T>::is_sorted of the trait BinarySearch
is_sorted(v) == \A i \in 1..(Len(v) - 1) : v[i] <= v[i + 1]

\* a - b in usize where the build does not check for overflow
wrapping_sub(a, b) == (a - b + UsizeValues) % UsizeValues

\* The loop of binary_search.  The result is the value returned, whether the
\* call panicked, and whether a subtraction went below zero.
RECURSIVE search_loop(_, _, _, _, _, _)
search_loop(v, target, left, right, checks, overflow) ==
    IF ~(left <= right)
    THEN [ret |-> None, panic |-> FALSE, overflow |-> overflow]
    ELSE LET mid == left + ((right - left) \div 2) IN
      IF mid >= Len(v)
      THEN [ret |-> None, panic |-> FALSE, overflow |-> overflow]
      ELSE IF At(v, mid) = target
      THEN [ret |-> Some(At(v, mid)), panic |-> FALSE, overflow |-> overflow]
      ELSE IF At(v, mid) < target
      THEN search_loop(v, target, (mid + 1) % UsizeValues, right, checks,
                       overflow)
      ELSE IF mid < 1 /\ checks
      THEN [ret |-> None, panic |-> TRUE, overflow |-> TRUE]
      ELSE search_loop(v, target, left, wrapping_sub(mid, 1), checks,
                       overflow \/ mid < 1)

\* Vec<T>::binary_search
binary_search(v, target, checks) ==
    IF ~is_sorted(v)
    THEN [ret |-> None, panic |-> FALSE, overflow |-> FALSE]
    ELSE IF Len(v) < 1 /\ checks
    THEN [ret |-> None, panic |-> TRUE, overflow |-> TRUE]
    ELSE search_loop(v, target, 0, wrapping_sub(Len(v), 1), checks,
                     Len(v) < 1)

\* ------------------------------------------- the program, BinarySearch
\* The targets: the elements, a value below all of them and one above
Targets == 0..(MaxElem + 1)

InitBS ==
    /\ \E n \in 0..MaxVecLen : input \in [1..n -> Elems]
    /\ bs_last = [op |-> "none", ret |-> None]
    /\ OthersAtRest("bs")

BinarySearchEnds(target, checks, r) ==
    /\ bs_last' = [op |-> "binary_search", target |-> target,
                   checks |-> checks, ret |-> r.ret, panic |-> r.panic,
                   overflow |-> r.overflow]
    /\ UNCHANGED <<input, not_bs>>

BinarySearch(target, checks) ==
    BinarySearchEnds(target, checks, binary_search(input, target, checks))

NextBS == \E target \in Targets, checks \in BOOLEAN :
              BinarySearch(target, checks)

SpecBS == InitBS /\ [][NextBS]_vars

\* ===================================================================== Bag
\* src/bag/src/lib.rs over src/pennant/src/lib.rs.  A Pennant is the record
\* [element, k, count, left, middle, right] with an Option of a Pennant in
\* each of left, middle and right; a Bag is [spine, capacity, count] with an
\* Option of a Pennant in each slot of the spine.  Bag<T> and Pennant<T> put
\* no bound on T and never look at an element, so the elements inserted are
\* told apart by the order they were made in: the n-th element is n.
\* A bag is made by Bag::new() or by Bag::with_degree(k), k up to
\* MaxBagDegree, and is given up to MaxBagLen elements by insert.
MaxBagDegree == 2
MaxBagLen == 3

\* Pennant::new
pennant_new(element) ==
    [element |-> element, k |-> 0, count |-> 1,
     left |-> None, middle |-> None, right |-> None]

\* f32::log2(count as f32) as i32, for count >= 1
RECURSIVE log2(_)
log2(count) == IF count < 2 THEN 0 ELSE 1 + log2(count \div 2)

\* Pennant::combine.  The result is the pennant and whether the assert!
\* on the degrees failed.
combine(self, pennant) ==
    IF self.k # pennant.k
    THEN [pennant |-> self, panic |-> TRUE]
    ELSE IF self.middle = None
    THEN [pennant |-> [self EXCEPT !.middle = Some(pennant),
                                   !.count = @ + 1,
                                   !.k = 1],
          panic |-> FALSE]
    ELSE [pennant |->
            [self EXCEPT
               !.middle = Some([pennant EXCEPT !.left = self.middle,
                                               !.right = pennant.middle,
                                               !.middle = None]),
               !.count = @ + pennant.count,
               !.k = log2(self.count + pennant.count)],
          panic |-> FALSE]

\* Bag::new
bag_new == [spine |-> [i \in 1..8 |-> None], capacity |-> 255, count |-> 0]

\* Bag::with_degree
with_degree(k) ==
    [spine |-> [i \in 1..k |-> None], capacity |-> 2 ^ (k + 1) - 1,
     count |-> 0]

\* Bag::len
bag_len(self) == self.count

\* Bag::insert_pennant, lines 64-68: the spine grows when index is its length
resized(self, index) ==
    IF index = Len(self.spine)
    THEN [self EXCEPT
            !.spine = [i \in 1..(index * 2 + 1) |->
                         IF i <= index THEN self.spine[i] ELSE None],
            !.capacity = 2 ^ (index * 2 + 1) - 1]
    ELSE self

\* Bag::insert_pennant.  The result is the bag and whether the call
\* panicked: on spine[index] past the end of the spine, or in combine.
RECURSIVE insert_pennant(_, _, _)
\* Bag::insert_pennant, lines 76-85, with c the result of combine
insert_combined(self, c, index) ==
    IF c.panic
    THEN [bag |-> self, panic |-> TRUE]
    ELSE insert_pennant(self, c.pennant, index + 1)

\* Bag::insert_pennant, lines 70-86, on the spine as resized
insert_at_slot(self, pennant, index) ==
    IF index >= Len(self.spine)
    THEN [bag |-> self, panic |-> TRUE]
    ELSE IF At(self.spine, index) = None
    THEN [bag |-> [self EXCEPT !.count = @ + pennant.count,
                               !.spine = VecSet(@, index, Some(pennant))],
          panic |-> FALSE]
    ELSE insert_combined(
           [self EXCEPT !.count = @ - At(self.spine, index)[1].count,
                        !.spine = VecSet(@, index, None)],
           combine(pennant, At(self.spine, index)[1]),
           index)

insert_pennant(self, pennant, index) ==
    insert_at_slot(resized(self, index), pennant, index)

\* Bag::insert
bag_insert(self, element) == insert_pennant(self, pennant_new(element), 0)

\* Bag::union, lines 94-106: the loop over the slots of other.spine from
\* slot i on, with r the bag so far
RECURSIVE union_slots(_, _, _)
union_slots(r, spine, i) ==
    IF r.panic \/ i >= Len(spine)
    THEN r
    ELSE IF At(spine, i) = None
    THEN union_slots(r, spine, i + 1)
    ELSE union_slots(insert_pennant(r.bag, At(spine, i)[1], At(spine, i)[1].k),
                     spine, i + 1)

\* Bag::union, line 108
union_counted(r, other_len) ==
    IF r.panic THEN r ELSE [r EXCEPT !.bag.count = @ + other_len]

\* Bag::union
bag_union(self, that) ==
    union_counted(union_slots([bag |-> self, panic |-> FALSE], that.spine, 0),
                  bag_len(that))

\* --------------------------------------------------- the program, Bag
\* The elements of a pennant and of a bag, in the order of the spine
RECURSIVE pennant_elements(_)
pennant_elements(p) ==
    IF p = None
    THEN <<>>
    ELSE <<p[1].element>> \o pennant_elements(p[1].left)
         \o pennant_elements(p[1].middle) \o pennant_elements(p[1].right)

RECURSIVE spine_elements(_, _)
spine_elements(spine, i) ==
    IF i > Len(spine)
    THEN <<>>
    ELSE pennant_elements(spine[i]) \o spine_elements(spine, i + 1)

elements(self) == spine_elements(self.spine, 1)

\* The bags as they are made
NewBags == {bag_new} \cup {with_degree(k) : k \in 0..MaxBagDegree}

InitBag ==
    /\ bag \in NewBags
    /\ other \in NewBags
    /\ bag_panicked = FALSE
    /\ bag_last = [op |-> "new"]
    /\ OthersAtRest("bag")

\* The element that the next insert makes
Fresh == Len(elements(bag)) + Len(elements(other)) + 1

BagEnds(op, r, o) ==
    /\ bag' = r.bag
    /\ other' = o
    /\ bag_panicked' = r.panic
    /\ bag_last' = [op |-> op]
    /\ UNCHANGED not_bag

\* bag.insert(element)
BagInsert ==
    /\ ~bag_panicked /\ bag_last.op # "union"
    /\ Len(elements(bag)) < MaxBagLen
    /\ BagEnds("insert", bag_insert(bag, Fresh), other)

OtherEnds(r) ==
    /\ other' = r.bag
    /\ bag_panicked' = r.panic
    /\ bag_last' = [op |-> "insert into other"]
    /\ UNCHANGED <<bag, not_bag>>

\* other.insert(element)
OtherInsert ==
    /\ ~bag_panicked /\ bag_last.op # "union"
    /\ Len(elements(other)) < MaxBagLen
    /\ OtherEnds(bag_insert(other, Fresh))

\* bag.union(other): other is moved into the call, and the two bags are
\* not used any further
BagUnion ==
    /\ ~bag_panicked /\ bag_last.op # "union"
    /\ BagEnds("union", bag_union(bag, other), other)

NextBag == BagInsert \/ OtherInsert \/ BagUnion

SpecBag == InitBag /\ [][NextBag]_vars

\* ==================================================================== List
\* src/doubly-linked-list/src/lib.rs.  A List is [nodes, head, tail]; nodes
\* is a Slab (crate slab): the slots `entries`, each either occupied by a
\* Node [value, prev, next] or vacant and holding the key of the next vacant
\* slot, and `next`, the key that the next insert hands out (the slot vacated
\* last, or the length of entries).  Keys are 0-based, as in the source.
\* The list holds up to MaxListLen values.
MaxListLen == 3

\* const NULL: usize = !0
NULL == 0 - 1

occupied(nodes, key) ==
    key >= 0 /\ key < Len(nodes.entries) /\ At(nodes.entries, key).occupied

\* Slab::insert of a Node with prev and next NULL; the key is nodes.next
slab_insert(nodes, value) ==
    LET entry == [occupied |-> TRUE, value |-> value, prev |-> NULL,
                  next |-> NULL]
    IN IF nodes.next = Len(nodes.entries)
       THEN [entries |-> Append(nodes.entries, entry),
             next |-> nodes.next + 1]
       ELSE [entries |-> VecSet(nodes.entries, nodes.next, entry),
             next |-> At(nodes.entries, nodes.next).next]

\* Slab::remove of an occupied slot: the slot becomes the first vacant one
slab_remove(nodes, key) ==
    [entries |-> VecSet(nodes.entries, key,
                        [occupied |-> FALSE, value |-> 0, prev |-> NULL,
                         next |-> nodes.next]),
     next |-> key]

\* Slab::len
slab_len(nodes) ==
    Cardinality({i \in 1..Len(nodes.entries) : nodes.entries[i].occupied})

\* List::new
list_new == [nodes |-> [entries |-> <<>>, next |-> 0],
             head |-> NULL, tail |-> NULL]

\* List::len
list_len(self) == slab_len(self.nodes)

\* List::link, the first line only
link_next_only(self, a, b) ==
    IF a # NULL
    THEN [self EXCEPT !.nodes.entries =
            VecSet(@, a, [At(@, a) EXCEPT !.next = b])]
    ELSE self

\* List::link, the second line, on the list that the first left
link_prev(self, a, b) ==
    IF b # NULL
    THEN [self EXCEPT !.nodes.entries =
            VecSet(@, b, [At(@, b) EXCEPT !.prev = a])]
    ELSE self

\* List::link.  nodes[a] and nodes[b] panic on a vacant slot: links(self, a,
\* b) says that they do not.
link(self, a, b) == link_prev(link_next_only(self, a, b), a, b)

links(self, a, b) ==
    /\ a = NULL \/ occupied(self.nodes, a)
    /\ b = NULL \/ occupied(self.nodes, b)

\* List::push_back, lines 51-59, with node the key of the Node inserted
push_back_linked(self, node) ==
    [list |-> [link(self, self.tail, node) EXCEPT
                 !.tail = node,
                 !.head = IF self.head = NULL THEN node ELSE @],
     ret |-> Some(node),
     panic |-> ~links(self, self.tail, node)]

\* List::push_back
list_push_back(self, value) ==
    push_back_linked([self EXCEPT !.nodes = slab_insert(@, value)],
                     self.nodes.next)

\* List::push_front, lines 69-77, with node the key of the Node inserted
push_front_linked(self, node) ==
    [list |-> [link(self, node, self.head) EXCEPT
                 !.head = node,
                 !.tail = IF self.tail = NULL THEN node ELSE @],
     ret |-> Some(node),
     panic |-> ~links(self, node, self.head)]

\* List::push_front
list_push_front(self, value) ==
    push_front_linked([self EXCEPT !.nodes = slab_insert(@, value)],
                      self.nodes.next)

\* List::pop_back, lines 86-93, with node the Node removed from the slab
pop_back_unlinked(self, node) ==
    [list |-> [link(self, node.prev, NULL) EXCEPT
                 !.tail = node.prev,
                 !.head = IF node.prev = NULL THEN NULL ELSE @],
     ret |-> Some(node.value),
     panic |-> ~links(self, node.prev, NULL)]

\* List::pop_back
list_pop_back(self) ==
    IF list_len(self) = 0
    THEN [list |-> self, ret |-> None, panic |-> FALSE]
    ELSE IF ~occupied(self.nodes, self.tail)
    THEN [list |-> self, ret |-> None, panic |-> TRUE]
    ELSE pop_back_unlinked([self EXCEPT !.nodes = slab_remove(@, self.tail)],
                           At(self.nodes.entries, self.tail))

\* List::pop_front, lines 103-110, with node the Node removed from the slab
pop_front_unlinked(self, node) ==
    [list |-> [link(self, NULL, node.next) EXCEPT
                 !.head = node.next,
                 !.tail = IF node.next = NULL THEN NULL ELSE @],
     ret |-> Some(node.value),
     panic |-> ~links(self, NULL, node.next)]

\* List::pop_front
list_pop_front(self) ==
    IF list_len(self) = 0
    THEN [list |-> self, ret |-> None, panic |-> FALSE]
    ELSE IF ~occupied(self.nodes, self.head)
    THEN [list |-> self, ret |-> None, panic |-> TRUE]
    ELSE pop_front_unlinked([self EXCEPT !.nodes = slab_remove(@, self.head)],
                            At(self.nodes.entries, self.head))

\* List::peek_front and List::peek_back, with key the head or the tail
peek_at(self, key) ==
    IF list_len(self) = 0
    THEN [list |-> self, ret |-> None, panic |-> FALSE]
    ELSE IF ~occupied(self.nodes, key)
    THEN [list |-> self, ret |-> None, panic |-> TRUE]
    ELSE [list |-> self, ret |-> Some(At(self.nodes.entries, key).value),
          panic |-> FALSE]

peek_front(self) == peek_at(self, self.head)

peek_back(self) == peek_at(self, self.tail)

\* -------------------------------------------------- the program, List
InitList ==
    /\ list = list_new
    /\ deque = <<>>
    /\ list_last = [op |-> "new", ret |-> None, panic |-> FALSE]
    /\ OthersAtRest("list")

\* A call has ended with the result r; d is the reference sequence after it
ListEnds(op, r, d) ==
    /\ ~list_last.panic
    /\ list' = r.list
    /\ deque' = d
    /\ list_last' = [op |-> op, ret |-> r.ret, panic |-> r.panic]
    /\ UNCHANGED not_list

ListPushBack(value) ==
    /\ Len(deque) < MaxListLen
    /\ ListEnds("push_back", list_push_back(list, value),
                Append(deque, value))

ListPushFront(value) ==
    /\ Len(deque) < MaxListLen
    /\ ListEnds("push_front", list_push_front(list, value),
                <<value>> \o deque)

ListPopBack ==
    ListEnds("pop_back", list_pop_back(list),
             SubSeq(deque, 1, Len(deque) - 1))

ListPopFront ==
    ListEnds("pop_front", list_pop_front(list), SubSeq(deque, 2, Len(deque)))

ListPeekFront == ListEnds("peek_front", peek_front(list), deque)

ListPeekBack == ListEnds("peek_back", peek_back(list), deque)

NextList ==
    \/ \E value \in Vals : ListPushBack(value) \/ ListPushFront(value)
    \/ ListPopBack
    \/ ListPopFront
    \/ ListPeekFront
    \/ ListPeekBack

SpecList == InitList /\ [][NextList]_vars

\* ------------------------------------------------------------ observations
\* What the claims say about a tree, read off the Node records.

\* The elements of a sequence
Range(v) == {v[i] : i \in 1..Len(v)}

\* The in-order traversal of a subtree: child 0, key 0, child 1, key 1, ...
RECURSIVE inorder(_)
RECURSIVE inorder_from(_, _)
inorder(node) ==
    IF is_leaf(node) THEN node.keys ELSE inorder_from(node, 0)

inorder_from(node, i) ==
    IF i >= Len(node.children)
    THEN SubSeq(node.keys, i + 1, Len(node.keys))
    ELSE (inorder(At(node.children, i))
          \o (IF i < Len(node.keys) THEN <<At(node.keys, i)>> ELSE <<>>))
         \o inorder_from(node, i + 1)

StrictlyAscending(v) == \A i \in 1..(Len(v) - 1) : v[i] < v[i + 1]

\* The nodes of a subtree other than its root
RECURSIVE Descendants(_)
Descendants(node) ==
    UNION {{c} \cup Descendants(c) : c \in Range(node.children)}

\* The depths at which the leaves of a subtree lie (its root is at depth 1)
RECURSIVE LeafDepths(_)
LeafDepths(node) ==
    IF is_leaf(node) THEN {1}
    ELSE {d + 1 : d \in UNION {LeafDepths(c) : c \in Range(node.children)}}

\* The number of levels of a subtree, along its first children
RECURSIVE height(_)
height(node) == IF is_leaf(node) THEN 1 ELSE 1 + height(At(node.children, 0))

\* The number of keys stored in the nodes of a subtree
RECURSIVE count_keys(_)
RECURSIVE count_keys_from(_, _)
count_keys(node) == Len(node.keys) + count_keys_from(node, 0)

count_keys_from(node, i) ==
    IF i >= Len(node.children) THEN 0
    ELSE count_keys(At(node.children, i)) + count_keys_from(node, i + 1)

\* The keys stored in the program's tree
Stored == Range(inorder(root))

\* Some node below the root holds fewer than min_keys keys
SomeNodeDeficient == \E n \in Descendants(root) : Len(n.keys) < min_keys

\* The Btree after a sequence of inserts
RECURSIVE insert_all(_, _)
insert_all(b, vals) ==
    IF vals = <<>> THEN b ELSE insert_all(insert(b, Head(vals)).self, Tail(vals))

\* ------------------------------------------------------------------ claims
\* A call that panics never returns.  What a claim says of the tree after a
\* call is stated of the states that a returning call leaves (~panicked);
\* what a claim says a call returns is violated by a call that panics.

\* C1: after every sequence of insert and remove calls the in-order
\* traversal of the tree is strictly ascending, without duplicates, and its
\* keys are the keys whose insert returned true and whose remove has not
\* returned true since.
C1_InorderIsTheReferenceSet ==
    ~panicked => /\ StrictlyAscending(inorder(root))
                 /\ Range(inorder(root)) = model

\* C1 witness: a remove has returned true in a tree of two or more levels
\* and has left a node with fewer than min_keys keys behind.
C1_Witness ==
    /\ ~panicked /\ last = [op |-> "remove", ret |-> TRUE]
    /\ height(root) >= 2 /\ SomeNodeDeficient
    /\ Range(inorder(root)) = model

\* C2: no call of insert, remove or contains panics.
C2_NoCallPanics == ~panicked

\* C3: after every insert and remove the root has at most max_keys keys and
\* every other node has between min_keys and max_keys keys.
C3_KeyCountBounds ==
    ~panicked => /\ Len(root.keys) <= max_keys
                 /\ \A n \in Descendants(root) :
                        Len(n.keys) >= min_keys /\ Len(n.keys) <= max_keys

\* Scenario B of the specification: degree 2, insert 10, 20, 5, 6, 12, 30,
\* 7, 17, then remove 6
ScenarioBHolds(r) ==
    /\ ~r.panic /\ r.ret
    /\ ~contains(r.self, 6).ret
    /\ len(r.self) = 7
    /\ Cardinality(LeafDepths(r.self.root)) = 1

ScenarioB ==
    ScenarioBHolds(remove(insert_all(new(2), <<10, 20, 5, 6, 12, 30, 7, 17>>), 6))

\* C4: after every insert and remove all leaves are at the same depth, as
\* they are after the remove(6) of scenario B.
C4_LeavesAtOneDepth ==
    /\ ~panicked => Cardinality(LeafDepths(root)) = 1
    /\ ScenarioB

\* C4 witness: a remove has returned true and left a tree of three levels.
C4_Witness ==
    /\ ~panicked /\ last = [op |-> "remove", ret |-> TRUE]
    /\ LeafDepths(root) = {3}

\* C5: after every insert, remove and clear, len() is the number of keys
\* stored in the nodes, and is_empty() holds exactly when that number is 0.
C5_LenIsTheKeyCount ==
    ~panicked => /\ len(Self) = count_keys(root)
                 /\ is_empty(Self) <=> (count_keys(root) = 0)

\* C5 witness: a remove has returned true and left five or more keys in a
\* tree of two or more levels.
C5_Witness ==
    /\ ~panicked /\ last = [op |-> "remove", ret |-> TRUE]
    /\ height(root) >= 2 /\ len(Self) >= 5 /\ count_keys(root) = len(Self)

\* The result r of a call: the call returned false
ReturnsFalse(r) == ~r.panic /\ ~r.ret

\* C6: remove(x) of a stored key x returns true; after it contains(x) is
\* false, len() is one less, every other key is still contained, and a
\* second remove(x) returns false.
C6_RemoveOfAStoredKey ==
    [][\A x \in Keys : (x \in Stored /\ Remove(x)) =>
          /\ ~panicked' /\ last'.ret
          /\ ~contains(Self', x).ret
          /\ len(Self') = len(Self) - 1
          /\ \A y \in Stored \ {x} : contains(Self', y).ret
          /\ ReturnsFalse(remove(Self', x))]_vars

\* The round trip of C7: distinct keys are inserted, and from the first
\* remove on only stored keys are removed.
RoundTripInsert(val) ==
    /\ last.op \in {"new", "insert"}
    /\ val \notin model
    /\ Insert(val)

RoundTripRemove(val) ==
    /\ val \in model
    /\ Remove(val)

RoundTripNext ==
    \/ \E val \in Keys : RoundTripInsert(val)
    \/ \E val \in Keys : RoundTripRemove(val)

SpecRoundTrip == Init /\ [][RoundTripNext]_vars

\* C7: in a round trip every call completes, every remove returns true, and
\* when all the keys inserted have been removed the tree is empty:
\* is_empty(), len() = 0, the root an empty leaf.
C7_RoundTrip ==
    /\ ~panicked
    /\ last.op = "remove" => last.ret
    /\ (last.op = "remove" /\ model = {}) =>
          is_empty(Self) /\ len(Self) = 0 /\ root = NodeNew

\* C8: insert(x) of a key x that is not stored returns true; after it
\* contains(x) is true, len() is one more and every key stored before is
\* still contained; insert returns true exactly when the key was not stored.
C8_InsertOfANewKey ==
    [][\A x \in Keys : Insert(x) =>
          /\ ~panicked'
          /\ last'.ret <=> (x \notin Stored)
          /\ (x \notin Stored) =>
                /\ contains(Self', x).ret
                /\ len(Self') = len(Self) + 1
                /\ \A y \in Stored : contains(Self', y).ret]_vars

\* C9: contains(x) returns true exactly when x is in the set of the keys
\* inserted and not since removed, and it changes nothing in the tree.
C9_ContainsIsMembership ==
    [][\A x \in Keys : Contains(x) =>
          /\ ~panicked'
          /\ last'.ret <=> (x \in model)
          /\ Self' = Self]_vars

\* C9 witness: a contains has returned true in a tree of two or more levels
\* in which a remove has left a node with fewer than min_keys keys.
C9_Witness ==
    /\ ~panicked /\ last = [op |-> "contains", ret |-> TRUE]
    /\ height(root) >= 2 /\ SomeNodeDeficient

\* C10: insert(x) of a stored key x returns false and leaves len() and the
\* in-order traversal as they were.
C10_InsertOfAStoredKey ==
    [][\A x \in Keys : (x \in Stored /\ Insert(x)) =>
          /\ ~panicked' /\ ~last'.ret
          /\ len(Self') = len(Self)
          /\ inorder(root') = inorder(root)]_vars

\* C11: remove(x) of a key x that is not stored returns false and leaves
\* len() and the in-order traversal as they were.
C11_RemoveOfAnAbsentKey ==
    [][\A x \in Keys : (x \notin Stored /\ Remove(x)) =>
          /\ ~panicked' /\ ~last'.ret
          /\ len(Self') = len(Self)
          /\ inorder(root') = inorder(root)]_vars

\* The nodes of the program's tree
Nodes == {root} \cup Descendants(root)

\* C12: after every insert and every remove every internal node has exactly
\* keys.len() + 1 children (a leaf is a node with no children).
C12_ChildCount ==
    ~panicked => \A n \in Nodes :
                    is_leaf(n) \/ Len(n.children) = Len(n.keys) + 1

\* C12 witness: a remove has returned true in a tree of three levels, with
\* internal nodes below the root, and has left a node with fewer than
\* min_keys keys behind.
C12_Witness ==
    /\ ~panicked /\ last = [op |-> "remove", ret |-> TRUE]
    /\ height(root) >= 3 /\ SomeNodeDeficient
    /\ \E n \in Descendants(root) : Len(n.children) = Len(n.keys) + 1

\* A program that calls new with any degree from 0 on
NewEnds(r) ==
    /\ Holds(r.self)
    /\ panicked = r.panic
    /\ model = {}
    /\ last = [op |-> "new", ret |-> FALSE]
    /\ OthersAtRest("btree")

InitNew == \E degree \in 0..MaxDegree : NewEnds(new_call(degree))

SpecNew == InitNew /\ [][Next]_vars

\* C13: new(degree) with degree < 2 fails with an error that the caller can
\* handle.  Btree::new returns Self: the only outcome other than a Btree is a
\* panic, so the claim asks that no call of new panics.
C13_NewFailsWithAnError == last.op = "new" => ~panicked

\* The root that remove_sub has left, r, is an internal node without keys
RootLeftEmpty(r) == Len(r.node.keys) = 0 /\ ~is_leaf(r.node)

\* What C14 says of the calls of insert, remove and contains that return
HeightOfCalls ==
    /\ (last'.op = "insert" /\ ~panicked') =>
          \A x \in Keys : Insert(x) =>
             height(root') =
                height(root) + (IF Len(root.keys) = max_keys THEN 1 ELSE 0)
    /\ (last'.op = "remove" /\ ~panicked') =>
          \A x \in Keys : Remove(x) =>
             height(root') =
                height(root)
                  - (IF RootLeftEmpty(remove_sub(Self, x)) THEN 1 ELSE 0)
    /\ (last'.op = "contains" /\ ~panicked') =>
          \A x \in Keys : Contains(x) => height(root') = height(root)

\* C14, as stated: an insert increases the height by exactly one if and only
\* if the root holds max_keys keys when it is called, a remove decreases it
\* by exactly one if and only if it leaves an internal root with zero keys,
\* and no other operation changes the height.
C14_HeightChanges ==
    [][HeightOfCalls /\ (Clear => height(root') = height(root))]_vars

\* C14, amended: as stated for insert, remove and contains; clear leaves a
\* tree of one level, whatever the height was.
C14_HeightChangesButForClear ==
    [][HeightOfCalls /\ (Clear => height(root') = 1)]_vars

\* C14 witness: an insert of a stored key has found the root full and has
\* split it before it returned false: the tree of max_keys keys has two
\* levels, one key in the root
C14_Witness ==
    /\ ~panicked /\ last = [op |-> "insert", ret |-> FALSE]
    /\ height(root) = 2 /\ Len(root.keys) = 1 /\ size = max_keys

\* C15: clear() leaves the tree as new(degree) makes it for the degree the
\* tree was made with: the root a single empty leaf, len() = 0, is_empty(),
\* contains(x) false for every x; and no operation changes min_keys and
\* max_keys.
C15_ClearIsNew ==
    [][/\ min_keys' = min_keys /\ max_keys' = max_keys
       /\ Clear =>
            /\ root' = [keys |-> <<>>, children |-> <<>>]
            /\ len(Self') = 0 /\ is_empty(Self')
            /\ \A x \in Keys : ReturnsFalse(contains(Self', x))
            /\ \E degree \in Degrees : Self' = new(degree)]_vars

\* C15 witness: a clear has returned in a tree of the largest degree
C15_Witness ==
    /\ ~panicked /\ last.op = "clear"
    /\ min_keys = MaxDegree - 1 /\ is_empty(Self) /\ root = NodeNew

\* The smaller of two numbers
Min(a, b) == IF a < b THEN a ELSE b

\* A sequence without its last element, and without its element at i
AllButLast(v) == SubSeq(v, 1, Len(v) - 1)
Without(v, i) == SubSeq(v, 1, i - 1) \o SubSeq(v, i + 1, Len(v))

RECURSIVE first_in(_, _, _)
first_in(v, pred, i) ==
    IF i > Len(v) THEN 0
    ELSE IF v[i] \in pred THEN i
    ELSE first_in(v, pred, i + 1)

\* What C17 says of a call of touch, lookup or fetch with the predicate
\* pred, where v is the iteration before the call and k the place of the
\* first value in it that matches: hit is whether the call reported a hit
TouchMovesTheFirstMatch(v, k, hit) ==
    /\ ~lru_panicked'
    /\ ~iter_mut(cache').panic
    /\ lru_len(cache') = lru_len(cache)
    /\ hit <=> (k > 0)
    /\ items(cache') = IF k > 0 THEN <<v[k]>> \o Without(v, k) ELSE v

\* C17: touch, lookup and fetch move the first entry that matches, in the
\* order of the iteration, to the front, keep the order of the others and
\* len(), and return true (Some); when no entry matches they return false
\* (None) and the order stays.  lookup returns what the predicate returned
\* and fetch the value now at the front.
C17_TouchMovesTheFirstMatch ==
    [][/\ lru_last'.op = "touch" =>
            \A pred \in Preds : LRUTouch(pred) =>
               TouchMovesTheFirstMatch(items(cache),
                                       first_in(items(cache), pred, 1),
                                       lru_last'.ret = TRUE)
       /\ lru_last'.op = "lookup" =>
            \A pred \in Preds : LRULookup(pred) =>
               /\ TouchMovesTheFirstMatch(items(cache),
                                          first_in(items(cache), pred, 1),
                                          lru_last'.ret # None)
               /\ lru_last'.ret \in {None, lru_front(cache')}
       /\ lru_last'.op = "fetch" =>
            \A pred \in Preds : LRUFetch(pred) =>
               /\ TouchMovesTheFirstMatch(items(cache),
                                          first_in(items(cache), pred, 1),
                                          lru_last'.ret # None)
               /\ lru_last'.ret \in {None, lru_front(cache')}]_vars

\* C17 witness: a touch has hit in a cache of three entries that holds the
\* value 1 at the front and at the end and another value between them
C17_Witness ==
    /\ ~lru_panicked /\ lru_last = [op |-> "touch", ret |-> TRUE]
    /\ items(cache) = <<1, 2, 1>>

\* C18: pop returns the elements in the order in which they were pushed:
\* each pop returns the oldest element pushed and not yet popped, None when
\* there is none; is_empty() is true exactly when no element pushed is left.
C18_QueueIsFifo ==
    [][/\ QueuePop =>
            queue_last'.ret = IF fifo = <<>> THEN None ELSE Some(Head(fifo))
       /\ queue_is_empty(queue) <=> (fifo = <<>>)
       /\ queue_is_empty(queue') <=> (fifo' = <<>>)]_vars

\* C18 witness: a pop has returned an element while pushes made after the
\* last swap wait in `newer` and elements of both values are left
C18_Witness ==
    /\ queue_last.op = "pop" /\ queue_last.ret # None
    /\ Len(queue.older) >= 1 /\ Len(queue.newer) >= 1
    /\ Cardinality(Range(fifo)) >= 2

\* The number of times x occurs in the sequence v
Count(v, x) == Cardinality({i \in 1..Len(v) : v[i] = x})

\* C19: pop returns an element that no remaining element is greater than
\* under the comparator of the queue and takes one copy of it out of the
\* queue; on an empty queue it returns None; peek returns what the next pop
\* returns; len() goes up by one with every insert and down by one with
\* every pop that returns an element.
C19_PopReturnsTheGreatest ==
    [][/\ PQPop =>
            IF pq_len(pq) = 0
            THEN pq_last'.ret = None /\ pq_len(pq') = 0
            ELSE /\ pq_last'.ret # None
                 /\ \A x \in Range(pq.storage) :
                       compare(pq, x, pq_last'.ret[1]) # "Greater"
                 /\ \A x \in Elems :
                       Count(pq'.storage, x) =
                          Count(pq.storage, x)
                             - (IF x = pq_last'.ret[1] THEN 1 ELSE 0)
                 /\ pq_len(pq') = pq_len(pq) - 1
       /\ \A value \in Elems : PQInsert(value) =>
            /\ pq_len(pq') = pq_len(pq) + 1
            /\ \A x \in Elems :
                  Count(pq'.storage, x) =
                     Count(pq.storage, x) + (IF x = value THEN 1 ELSE 0)
       /\ PQPeek => pq_last'.ret = pq_pop(pq).ret
       /\ peek(pq') = pq_pop(pq').ret]_vars

\* C19 witness: a pop has returned an element of a reversed queue, the
\* smallest, and has left four elements of three values behind
C19_Witness ==
    /\ pq_last = [op |-> "pop", ret |-> Some(1)]
    /\ pq.comparator = "reversed"
    /\ pq_len(pq) = 4 /\ Cardinality(Range(pq.storage)) = 3

\* The self-parented element that the parent links lead to from x in at most
\* `steps` steps; -1 when they lead to none
RECURSIVE root_of(_, _, _)
root_of(u, x, steps) ==
    IF parent_of(u, x) = x THEN x
    ELSE IF steps = 0 THEN -1
    ELSE root_of(u, parent_of(u, x), steps - 1)

\* x and y reach the same self-parented root in u
SameRoot(u, x, y) ==
    /\ root_of(u, x, Len(u.mappings)) # -1
    /\ root_of(u, x, Len(u.mappings)) = root_of(u, y, Len(u.mappings))

\* x and y are in one of the groups
SameGroup(groups, x, y) == \E g \in groups : x \in g /\ y \in g

\* C20: after new(n) and any sequence of union and find calls with arguments
\* below n, every call returns, two elements reach the same self-parented
\* root by the parent links exactly when the unions made so far connect
\* them, and two elements that reach the same root do so after every later
\* call.
C20_SameRootIsConnected ==
    [][/\ ~uf_panicked'
       /\ \A x \in Indices, y \in Indices :
            /\ SameRoot(uf', x, y) <=> SameGroup(uf_joined', x, y)
            /\ SameRoot(uf, x, y) => SameRoot(uf', x, y)]_vars

\* C21: binary_search(target) on a Vec sorted ascending returns Some of an
\* element equal to target if target occurs in the Vec and None if it does
\* not, the empty Vec and a target below every element included, and no
\* subtraction on left, right or mid leaves usize; on a Vec that is not
\* sorted it returns None.
C21_BinarySearchFinds ==
    bs_last.op = "binary_search" =>
        /\ ~bs_last.panic
        /\ ~bs_last.overflow
        /\ bs_last.ret = IF is_sorted(input) /\ bs_last.target \in Range(input)
                         THEN Some(bs_last.target)
                         ELSE None

\* The number of times x occurs in the sequence v
Occurrences(v, x) == Cardinality({i \in 1..Len(v) : v[i] = x})

\* C22: after a.union(b), for bags a and b built by insert, a contains all
\* the elements of both bags and a.len() is the a.len() of before plus
\* b.len().
C22_UnionAddsTheLengths ==
    [][BagUnion =>
           /\ ~bag_panicked'
           /\ bag_len(bag') = bag_len(bag) + bag_len(other)
           /\ \A x \in 1..(2 * MaxBagLen) :
                  Occurrences(elements(bag'), x)
                      = Occurrences(elements(bag), x)
                        + Occurrences(elements(other), x)]_vars

\* The first and the last element of a sequence, as an Option
First(d) == IF d = <<>> THEN None ELSE Some(d[1])

Last(d) == IF d = <<>> THEN None ELSE Some(d[Len(d)])

\* C23: for any sequence of push_front, push_back, pop_front and pop_back
\* the results are those of a double-ended sequence: every call returns,
\* pop_front returns the first element and pop_back the last (None on an
\* empty list), after every call peek_front and peek_back show the first and
\* the last element that are left, and len() is the number of elements.
C23_ListIsADeque ==
    [][NextList =>
           /\ ~list_last'.panic
           /\ ListPopFront => list_last'.ret = First(deque)
           /\ ListPopBack => list_last'.ret = Last(deque)
           /\ peek_front(list').ret = First(deque')
           /\ peek_back(list').ret = Last(deque')
           /\ ~peek_front(list').panic /\ ~peek_back(list').panic
           /\ list_len(list') = Len(deque')]_vars

\* C23 witness: pop_back has returned 2, the last of 2, 1, 2, and has left
\* 2, 1 in a list whose front was pushed by push_front after its back (the
\* key of the head is above the key of the tail)
C23_Witness ==
    /\ list_last = [op |-> "pop_back", ret |-> Some(2), panic |-> FALSE]
    /\ deque = <<2, 1>>
    /\ Len(list.nodes.entries) = MaxListLen
    /\ list.head > list.tail

\* The call of ensure_child_remove kept in `ensured` was made on a target
\* child with exactly min_keys keys
EnsuredAtMinKeys ==
    /\ ensured.op = "ensure_child_remove"
    /\ Len(At(root.children, ensured.index).keys) = min_keys

\* A sibling of the target child exists and holds more than min_keys keys,
\* or exactly min_keys keys
SiblingRich(sibling) ==
    /\ sibling >= 0 /\ sibling <= Len(root.keys)
    /\ Len(At(root.children, sibling).keys) > min_keys

SiblingAtMinKeys(sibling) ==
    /\ sibling >= 0 /\ sibling <= Len(root.keys)
    /\ Len(At(root.children, sibling).keys) = min_keys

\* r is `parent` after a rotation from the left into children[index]
RotatedFromLeft(parent, index, r) ==
    /\ ~r.panic /\ r.index = index
    /\ r.node.keys = VecSet(parent.keys, index - 1,
                            VecLast(At(parent.children, index - 1).keys))
    /\ Len(r.node.children) = Len(parent.children)
    /\ \A i \in 0..(Len(parent.children) - 1) :
         At(r.node.children, i) =
           IF i = index - 1
           THEN [keys |-> AllButLast(At(parent.children, i).keys),
                 children |-> AllButLast(At(parent.children, i).children)]
           ELSE IF i = index
           THEN [keys |-> <<At(parent.keys, index - 1)>>
                          \o At(parent.children, i).keys,
                 children |->
                     IF is_leaf(At(parent.children, i))
                     THEN <<>>
                     ELSE <<VecLast(At(parent.children, index - 1).children)>>
                          \o At(parent.children, i).children]
           ELSE At(parent.children, i)

\* C24: ensure_child_remove(parent, index), when the target child has
\* exactly min_keys keys and its left sibling children[index - 1] has more,
\* rotates from the left: the left sibling's last key replaces
\* keys[index - 1], the old keys[index - 1] becomes the first key of the
\* target, an internal left sibling's last child becomes the target's first
\* child, and the parent keeps its number of keys and of children.
C24_RotationFromTheLeft ==
    (EnsuredAtMinKeys /\ SiblingRich(ensured.index - 1)) =>
        RotatedFromLeft(root, ensured.index, ensured.r)

\* r is `parent` after a rotation from the right into children[index]
RotatedFromRight(parent, index, r) ==
    /\ ~r.panic /\ r.index = index
    /\ r.node.keys = VecSet(parent.keys, index,
                            At(At(parent.children, index + 1).keys, 0))
    /\ Len(r.node.children) = Len(parent.children)
    /\ \A i \in 0..(Len(parent.children) - 1) :
         At(r.node.children, i) =
           IF i = index + 1
           THEN [keys |-> Tail(At(parent.children, i).keys),
                 children |-> IF is_leaf(At(parent.children, i))
                              THEN <<>>
                              ELSE Tail(At(parent.children, i).children)]
           ELSE IF i = index
           THEN [keys |-> Append(At(parent.children, i).keys,
                                 At(parent.keys, index)),
                 children |->
                     IF is_leaf(At(parent.children, i))
                     THEN <<>>
                     ELSE Append(At(parent.children, i).children,
                                 At(At(parent.children, index + 1).children,
                                    0))]
           ELSE At(parent.children, i)

\* C25: ensure_child_remove(parent, index), when the target child has
\* exactly min_keys keys, its left sibling is absent or has exactly min_keys
\* keys and its right sibling has more, rotates from the right: the right
\* sibling's first key replaces keys[index], the old keys[index] is appended
\* to the target, and an internal right sibling's first child is appended to
\* the target's children.
C25_RotationFromTheRight ==
    (/\ EnsuredAtMinKeys
     /\ ensured.index = 0 \/ SiblingAtMinKeys(ensured.index - 1)
     /\ SiblingRich(ensured.index + 1)) =>
        RotatedFromRight(root, ensured.index, ensured.r)

\* r is `parent` after children[left] and children[left + 1] have been
\* merged around keys[left]
MergedAt(parent, left, r) ==
    /\ ~r.panic /\ r.index = left
    /\ r.node.keys = VecRemove(parent.keys, left)
    /\ Len(r.node.keys) = Len(parent.keys) - 1
    /\ Len(r.node.children) = Len(parent.children) - 1
    /\ \A i \in 0..(Len(parent.children) - 2) :
         At(r.node.children, i) =
           IF i < left
           THEN At(parent.children, i)
           ELSE IF i = left
           THEN [keys |-> Append(At(parent.children, left).keys,
                                 At(parent.keys, left))
                          \o At(parent.children, left + 1).keys,
                 children |-> At(parent.children, left).children
                              \o At(parent.children, left + 1).children]
           ELSE At(parent.children, i + 1)
    /\ Len(At(r.node.children, left).keys) = 2 * min_keys + 1

\* C26: ensure_child_remove(parent, index), when the target child and every
\* adjacent sibling that exists have exactly min_keys keys, merges the
\* target with its left sibling if there is one (the result is the child at
\* index - 1) and with its right sibling otherwise; the parent loses one key
\* and one child and the merged node has 2 * min_keys + 1 keys.
C26_Merge ==
    (/\ EnsuredAtMinKeys
     /\ ensured.index = 0 \/ SiblingAtMinKeys(ensured.index - 1)
     /\ ensured.index = Len(root.keys)
            \/ SiblingAtMinKeys(ensured.index + 1)) =>
        MergedAt(root,
                 IF ensured.index >= 1 THEN ensured.index - 1
                                       ELSE ensured.index,
                 ensured.r)

\* The nodes that the loops of remove_max, remove_min and remove_sub enter,
\* in the order they are entered, each with the is_root of the iteration;
\* a loop that panics enters no further node.
RECURSIVE entered_by_remove_max(_, _)
entered_by_remove_max_in(e, mn) ==
    IF e.panic
    THEN <<>>
    ELSE entered_by_remove_max(At(e.node.children, e.index), mn)

entered_by_remove_max(node, mn) ==
    <<[node |-> node, is_root |-> FALSE]>>
    \o IF ~(Len(node.keys) > mn) \/ is_leaf(node)
       THEN <<>>
       ELSE entered_by_remove_max_in(
              ensure_child_remove(node, mn, Len(node.children) - 1), mn)

RECURSIVE entered_by_remove_min(_, _)
entered_by_remove_min_in(e, mn) ==
    IF e.panic
    THEN <<>>
    ELSE entered_by_remove_min(At(e.node.children, e.index), mn)

entered_by_remove_min(node, mn) ==
    <<[node |-> node, is_root |-> FALSE]>>
    \o IF ~(Len(node.keys) > mn) \/ is_leaf(node)
       THEN <<>>
       ELSE entered_by_remove_min_in(ensure_child_remove(node, mn, 0), mn)

RECURSIVE entered_by_remove_loop(_, _, _, _, _, _, _)
entered_in_merged(m, index, val, mn, mx) ==
    IF m.panic
    THEN <<>>
    ELSE entered_by_remove_loop(At(m.node.children, index), TRUE, mn, FALSE,
                                val, mn, mx)

entered_searched(child, s, val, mn, mx) ==
    entered_by_remove_loop(child, s.found, s.index, FALSE, val, mn, mx)

entered_in_child(e, val, mn, mx) ==
    IF e.panic
    THEN <<>>
    ELSE entered_searched(At(e.node.children, e.index),
                          search(At(e.node.children, e.index), val),
                          val, mn, mx)

entered_by_remove_loop(node, found, index, is_root, val, mn, mx) ==
    <<[node |-> node, is_root |-> is_root]>>
    \o IF ~(Len(node.keys) <= mx) \/ ~(is_root \/ Len(node.keys) > mn)
          \/ is_leaf(node)
       THEN <<>>
       ELSE IF ~found
       THEN entered_in_child(ensure_child_remove(node, mn, index),
                             val, mn, mx)
       ELSE IF index >= Len(node.children)
       THEN <<>>
       ELSE IF Len(At(node.children, index).keys) > mn
       THEN entered_by_remove_max(At(node.children, index), mn)
       ELSE IF index + 1 >= Len(node.children)
       THEN <<>>
       ELSE IF Len(At(node.children, index + 1).keys) > mn
       THEN entered_by_remove_min(At(node.children, index + 1), mn)
       ELSE entered_in_merged(merge_children(node, mn, index), index,
                              val, mn, mx)

entered_from(self, s, val) ==
    entered_by_remove_loop(self.root, s.found, s.index, TRUE, val,
                           self.min_keys, self.max_keys)

\* The nodes that remove(val) enters on the tree self
entered_by_remove(self, val) == entered_from(self, search(self.root, val), val)

\* The assertions at the top of the loops hold for the nodes entered
AllReady(entered, mn, mx) ==
    \A i \in 1..Len(entered) :
        /\ Len(entered[i].node.keys) <= mx
        /\ entered[i].is_root \/ Len(entered[i].node.keys) > mn

\* C27: a call of ensure_child_remove that returns, returns a child with
\* more than min_keys keys (and at most max_keys), and every node that
\* remove enters, in the loops of remove_sub, remove_min and remove_max, has
\* at most max_keys keys and, unless it is the root, more than min_keys keys
\* when it is entered: the assertions at the top of the three loops hold.
C27_EnteredNodesAreReady ==
    /\ (ensured.op = "ensure_child_remove" /\ ~ensured.r.panic) =>
           /\ Len(At(ensured.r.node.children, ensured.r.index).keys) > min_keys
           /\ Len(At(ensured.r.node.children, ensured.r.index).keys)
                  <= max_keys
    /\ ~panicked =>
           \A val \in Keys : AllReady(entered_by_remove(Self, val),
                                      min_keys, max_keys)

\* A remove of val on the tree enters three nodes, the last of them a node
\* that the tree does not hold as it is entered: ensure_child_remove or
\* merge_children has made it
EntersAThirdNodeMade(entered) ==
    /\ Len(entered) = 3
    /\ entered[3].node \notin Nodes

\* C27 witness: ensure_child_remove has returned from a call on a target
\* with exactly min_keys keys, on the root of a tree of three levels in
\* which a remove enters a node that the rebalancing has made
C27_Witness ==
    /\ EnsuredAtMinKeys /\ ~ensured.r.panic
    /\ ~panicked /\ height(root) = 3
    /\ \E val \in Keys : EntersAThirdNodeMade(entered_by_remove(Self, val))

\* The greatest and the least element of a sequence that is not empty
Greatest(v) == CHOOSE m \in Range(v) : \A y \in Range(v) : y <= m

Least(v) == CHOOSE m \in Range(v) : \A y \in Range(v) : m <= y

\* remove(x) finds x in the root, an internal node, at keys[s.index]
FoundInRoot(s) == ~is_leaf(root) /\ s.found

\* The root after the call is the root before it with keys[index] replaced
\* by `key`, a key of the subtree children[child], and with that key taken
\* out of that subtree; the call has returned true
ReplacedBy(key, index, child) ==
    /\ ~panicked' /\ last'.ret
    /\ root'.keys = VecSet(root.keys, index, key)
    /\ Len(root'.children) = Len(root.children)
    /\ \A i \in 0..(Len(root.children) - 1) :
         i # child => At(root'.children, i) = At(root.children, i)
    /\ Range(inorder(At(root'.children, child)))
         = Range(inorder(At(root.children, child))) \ {key}
    /\ Len(inorder(At(root'.children, child)))
         = Len(inorder(At(root.children, child))) - 1

FoundWithRichLeftChild(s) ==
    (/\ FoundInRoot(s)
     /\ Len(At(root.children, s.index).keys) > min_keys) =>
        ReplacedBy(Greatest(inorder(At(root.children, s.index))),
                   s.index, s.index)

\* C28: removing a key found in an internal node whose left child (the
\* child at the found key's index) has more than min_keys keys replaces the
\* key by the greatest key of that child's subtree, takes that key out of
\* the subtree, and returns true, whatever the height of the subtree.
C28_ReplacedByThePredecessor ==
    [][last'.op = "remove" =>
           \A x \in Keys : Remove(x) =>
               FoundWithRichLeftChild(search(root, x))]_vars

FoundWithRichRightChild(s) ==
    (/\ FoundInRoot(s)
     /\ Len(At(root.children, s.index).keys) = min_keys
     /\ Len(At(root.children, s.index + 1).keys) > min_keys) =>
        ReplacedBy(Least(inorder(At(root.children, s.index + 1))),
                   s.index, s.index + 1)

\* C29: removing a key found in an internal node whose left child has
\* exactly min_keys keys and whose right child (at index + 1) has more
\* replaces the key by the least key of the right child's subtree, takes
\* that key out of the subtree, and returns true, whatever the height of the
\* subtree.
C29_ReplacedByTheSuccessor ==
    [][last'.op = "remove" =>
           \A x \in Keys : Remove(x) =>
               FoundWithRichRightChild(search(root, x))]_vars

\* m is the result of merge_children(root, min_keys, index): the node at
\* index has 2 * min_keys + 1 keys and x is the one at position min_keys
MergedAround(m, index, x) ==
    /\ ~m.panic
    /\ Len(At(m.node.children, index).keys) = 2 * min_keys + 1
    /\ At(At(m.node.children, index).keys, min_keys) = x

FoundBetweenChildrenAtMinKeys(s, x) ==
    (/\ FoundInRoot(s)
     /\ Len(At(root.children, s.index).keys) = min_keys
     /\ Len(At(root.children, s.index + 1).keys) = min_keys) =>
        /\ MergedAround(merge_children(root, min_keys, s.index), s.index, x)
        /\ ~panicked' /\ last'.ret
        /\ inorder(root') = Without(inorder(root), first_in(inorder(root), {x}, 1))
        /\ len(Self') = len(Self) - 1

\* C30: removing a key found at position i of an internal node whose
\* children i and i + 1 both have exactly min_keys keys merges the two
\* children and the key into one node of 2 * min_keys + 1 keys with the key
\* at position min_keys; the removal goes on inside that node and deletes
\* exactly that key: the call returns true and the in-order traversal is the
\* one of before without the key.
C30_RemovedFromTheMergedNode ==
    [][last'.op = "remove" =>
           \A x \in Keys : Remove(x) =>
               FoundBetweenChildrenAtMinKeys(search(root, x), x)]_vars


\* r is `parent` after the child at index, which held mx keys, has been
\* split: the old child keeps its lower mn keys and, if internal, its first
\* mn + 1 children; the new sibling, a leaf exactly when the old child is
\* one, holds the upper mn keys and the trailing mn + 1 children and lies
\* at index + 1; the middle key lies at keys[index]
SplitAt(parent, index, child, mn, r) ==
    /\ ~r.panic
    /\ r.node.keys = VecInsert(parent.keys, index, At(child.keys, mn))
    /\ Len(r.node.children) = Len(parent.children) + 1
    /\ \A i \in 0..Len(parent.children) :
         At(r.node.children, i) =
           IF i < index
           THEN At(parent.children, i)
           ELSE IF i = index
           THEN [keys |-> SubSeq(child.keys, 1, mn),
                 children |-> SubSeq(child.children, 1,
                                     IF is_leaf(child) THEN 0 ELSE mn + 1)]
           ELSE IF i = index + 1
           THEN [keys |-> SubSeq(child.keys, mn + 2, 2 * mn + 1),
                 children |-> SubSeq(child.children, mn + 2,
                                     IF is_leaf(child) THEN 0 ELSE 2 * mn + 2)]
           ELSE At(parent.children, i - 1)
    /\ Len(At(r.node.children, index).keys) = mn
    /\ Len(At(r.node.children, index + 1).keys) = mn
    /\ is_leaf(At(r.node.children, index)) = is_leaf(child)
    /\ is_leaf(At(r.node.children, index + 1)) = is_leaf(child)
    /\ is_leaf(child) \/ Len(At(r.node.children, index).children) = mn + 1
    /\ is_leaf(child) \/ Len(At(r.node.children, index + 1).children) = mn + 1
    /\ inorder(r.node) = inorder(parent)

\* The call of split_child kept in `ensured` was made on a child with
\* exactly max_keys keys
SplitAFullChild ==
    /\ ensured.op = "split_child"
    /\ Len(At(ensured.parent.children, ensured.index).keys) = max_keys

\* C31: split_child(parent, index) on a child with exactly max_keys keys
\* leaves the lower min_keys keys (and the first min_keys + 1 children) in
\* the old child, puts the upper min_keys keys (and the trailing
\* min_keys + 1 children) in a new sibling of the same kind at
\* children[index + 1] and the middle key at keys[index]; the in-order
\* sequence of the keys under the parent, and so their multiset, is unchanged.
C31_SplitChild ==
    SplitAFullChild =>
        SplitAt(ensured.parent, ensured.index,
                At(ensured.parent.children, ensured.index), min_keys,
                ensured.r)

\* C31 witness: a full internal child (the root, under a new root) has been
\* split
C31_Witness ==
    /\ SplitAFullChild
    /\ ~ensured.r.panic
    /\ ~is_leaf(At(ensured.parent.children, ensured.index))

\* C31 witness of the other kind: a full leaf between two other children
C31_WitnessLeaf ==
    /\ SplitAFullChild
    /\ ~ensured.r.panic
    /\ ensured.index >= 1 /\ ensured.index < Len(ensured.parent.keys)
    /\ is_leaf(At(ensured.parent.children, ensured.index))


\* The call of merge_children kept in `ensured` was made on two adjacent
\* children with exactly min_keys keys each
MergedTwoAtMinKeys ==
    /\ ensured.op = "merge_children"
    /\ Len(At(root.children, ensured.index).keys) = min_keys
    /\ Len(At(root.children, ensured.index + 1).keys) = min_keys

\* r is `parent` after merge_children(index): keys[index] is gone from the
\* parent and follows the keys of children[index], followed by the keys of
\* children[index + 1]; the children of children[index + 1] follow those of
\* children[index]; children[index + 1] is gone from the parent
MergedChildrenAt(parent, index, r) ==
    /\ ~r.panic
    /\ r.node.keys = VecRemove(parent.keys, index)
    /\ Len(r.node.keys) = Len(parent.keys) - 1
    /\ Len(r.node.children) = Len(parent.children) - 1
    /\ \A i \in 0..(Len(parent.children) - 2) :
         At(r.node.children, i) =
           IF i < index
           THEN At(parent.children, i)
           ELSE IF i = index
           THEN [keys |-> Append(At(parent.children, index).keys,
                                 At(parent.keys, index))
                          \o At(parent.children, index + 1).keys,
                 children |-> At(parent.children, index).children
                              \o At(parent.children, index + 1).children]
           ELSE At(parent.children, i + 1)
    /\ inorder(r.node) = inorder(parent)

\* C32: merge_children(parent, index) on two adjacent children with exactly
\* min_keys keys each removes keys[index] from the parent and appends it to
\* children[index], followed by the keys and the children of
\* children[index + 1], which is removed from the parent; the in-order
\* sequence of the keys under the parent is unchanged.
C32_MergeChildren ==
    MergedTwoAtMinKeys => MergedChildrenAt(root, ensured.index, ensured.r)

\* C32 witness: two internal children have been merged
C32_Witness ==
    /\ MergedTwoAtMinKeys
    /\ ~ensured.r.panic
    /\ ~is_leaf(At(root.children, ensured.index))
    /\ Len(At(ensured.r.node.children, ensured.index).children)
         = 2 * min_keys + 2

\* C32 witness of the other kind: two leaves between two other children
C32_WitnessLeaves ==
    /\ MergedTwoAtMinKeys
    /\ ~ensured.r.panic
    /\ ensured.index >= 1 /\ ensured.index + 1 < Len(root.keys)
    /\ is_leaf(At(root.children, ensured.index))


\* The nodes that the loop of insert enters, in the order they are entered,
\* each with the is_root of the iteration; a loop that panics enters no
\* further node.
RECURSIVE entered_by_insert_loop(_, _, _, _, _)
entered_after_split(sp, index, val, mn, mx) ==
    IF sp.panic \/ val = At(sp.node.keys, index)
    THEN <<>>
    ELSE IF val > At(sp.node.keys, index)
    THEN entered_by_insert_loop(At(sp.node.children, index + 1), FALSE,
                                val, mn, mx)
    ELSE entered_by_insert_loop(At(sp.node.children, index), FALSE,
                                val, mn, mx)

entered_by_insert_at(node, s, val, mn, mx) ==
    IF s.found \/ is_leaf(node) \/ s.index >= Len(node.children)
    THEN <<>>
    ELSE IF Len(At(node.children, s.index).keys) = mx
    THEN entered_after_split(split_child(node, mn, mx, s.index), s.index,
                             val, mn, mx)
    ELSE entered_by_insert_loop(At(node.children, s.index), FALSE,
                                val, mn, mx)

entered_by_insert_loop(node, is_root, val, mn, mx) ==
    <<[node |-> node, is_root |-> is_root]>>
    \o IF ~(Len(node.keys) < mx) \/ ~(is_root \/ Len(node.keys) >= mn)
       THEN <<>>
       ELSE entered_by_insert_at(node, search(node, val), val, mn, mx)

entered_after_root_split(self, sr, val) ==
    IF sr.panic
    THEN <<>>
    ELSE entered_by_insert_loop(sr.node, TRUE, val,
                                self.min_keys, self.max_keys)

\* The nodes that insert(val) enters on the tree self
entered_by_insert(self, val) ==
    entered_after_root_split(self, split_root(self), val)

\* The assertions at the top of the loop of insert hold for the nodes
\* entered, and no node is entered twice
InsertReady(entered, mn, mx) ==
    /\ \A i \in 1..Len(entered) :
        /\ Len(entered[i].node.keys) < mx
        /\ entered[i].is_root \/ Len(entered[i].node.keys) >= mn
    /\ \A i, j \in 1..Len(entered) : i < j => entered[i] # entered[j]
    /\ \A i \in 2..Len(entered) : ~entered[i].is_root

\* C33: every node that an insert enters has fewer than max_keys keys when
\* it is entered and, unless it is the root, at least min_keys keys (the
\* assertions of lines 78-79 hold in every reachable state), and no node is
\* entered more than once in a call.
C33_InsertEntersReadyNodes ==
    ~panicked =>
        \A val \in Keys : InsertReady(entered_by_insert(Self, val),
                                      min_keys, max_keys)


\* A root with zero keys is a leaf
RootWithoutKeysIsALeaf(node) == Len(node.keys) = 0 => is_leaf(node)

\* With r the result of remove_sub: when it leaves an internal root with
\* zero keys, that root has exactly one child and the root that remove
\* leaves is that child
ReplacedByTheOnlyChild(r, after) ==
    (~r.panic /\ Len(r.node.keys) = 0 /\ ~is_leaf(r.node)) =>
        /\ Len(r.node.children) = 1
        /\ after = At(r.node.children, 0)

\* C34: after every remove, whatever it returned, and every insert, the root
\* has zero keys only if it is a leaf; when remove_sub leaves an internal
\* root with zero keys, that root has exactly one child and remove replaces
\* it by that child.
C34_RootCollapse ==
    /\ (~panicked /\ last.op \in {"insert", "remove"}) =>
           RootWithoutKeysIsALeaf(root)
    /\ ensured.op = "remove" =>
           /\ ReplacedByTheOnlyChild(ensured.sub, ensured.r.self.root)
           /\ ~ensured.r.panic => RootWithoutKeysIsALeaf(ensured.r.self.root)

\* C34 witness: remove_sub has left an internal root with zero keys, in a
\* call for a key that is not stored, and remove has returned false
C34_Witness ==
    /\ ensured.op = "remove"
    /\ ~ensured.sub.panic
    /\ Len(ensured.sub.node.keys) = 0 /\ ~is_leaf(ensured.sub.node)
    /\ ~ensured.r.panic /\ ~ensured.r.ret
    /\ height(root) = 3

\* C34 witness of the other kind: the same in a call that has returned true
C34_WitnessFound ==
    /\ ensured.op = "remove"
    /\ ~ensured.sub.panic
    /\ Len(ensured.sub.node.keys) = 0 /\ ~is_leaf(ensured.sub.node)
    /\ ~ensured.r.panic /\ ensured.r.ret


\* Some node on the path that the search for val takes from `node`, up to
\* the node that holds val, holds mx keys
RECURSIVE full_on_path(_, _, _)
full_below(node, s, val, mx) ==
    /\ ~s.found /\ ~is_leaf(node) /\ s.index < Len(node.children)
    /\ full_on_path(At(node.children, s.index), val, mx)

full_on_path(node, val, mx) ==
    Len(node.keys) = mx \/ full_below(node, search(node, val), val, mx)

\* The call of insert kept in `ensured` was made for a stored key and has
\* returned
InsertedAStoredKey ==
    /\ ensured.op = "insert" /\ ensured.val \in Stored
    /\ ~ensured.r.panic

RECURSIVE at_min_on_path(_, _, _)
at_min_below(node, s, val, mn) ==
    /\ ~s.found /\ ~is_leaf(node) /\ s.index < Len(node.children)
    /\ \/ Len(At(node.children, s.index).keys) <= mn
       \/ at_min_on_path(At(node.children, s.index), val, mn)

at_min_on_path(node, val, mn) == at_min_below(node, search(node, val), val, mn)

\* The call of remove kept in `ensured` was made for a key that is not
\* stored and has returned
RemovedAnAbsentKey ==
    /\ ensured.op = "remove" /\ ensured.val \notin Stored
    /\ ~ensured.r.panic

GaveAKey(i) ==
    /\ ensured.op = "ensure_child_remove" /\ ~ensured.r.panic
    /\ Len(ensured.r.node.keys) = Len(root.keys)
    /\ Len(ensured.r.node.children) = Len(root.children)
    /\ i < Len(root.children)
    /\ Len(At(ensured.r.node.children, i).keys) < Len(At(root.children, i).keys)

\* C37: a rotation in ensure_child_remove takes a key only from a sibling
\* that has more than min_keys keys immediately before the rotation, so the
\* sibling that gives the key still has at least min_keys keys afterwards.
C37_TheDonorIsRich ==
    \A i \in 0..max_keys :
        GaveAKey(i) =>
            /\ Len(At(root.children, i).keys) > min_keys
            /\ Len(At(ensured.r.node.children, i).keys) >= min_keys


\* C38: in every sequence of insert and contains calls, on a Btree of any
\* degree, no assertion fails and after each call the leaves are at one
\* depth, every node holds at most max_keys keys and every node but the
\* root at least min_keys, every internal node has keys.len() + 1 children,
\* the in-order traversal is strictly ascending, and len() is the number of
\* the stored keys.
C38_InsertKeepsTheInvariants ==
    /\ ~panicked
    /\ Cardinality(LeafDepths(root)) = 1
    /\ \A n \in Nodes : Len(n.keys) <= max_keys
    /\ \A n \in Descendants(root) : Len(n.keys) >= min_keys
    /\ \A n \in Nodes : is_leaf(n) \/ Len(n.children) = Len(n.keys) + 1
    /\ StrictlyAscending(inorder(root))
    /\ Stored = model
    /\ len(Self) = count_keys(root)
    /\ len(Self) = Cardinality(model)

\* C38 witness: a contains has returned true in a tree of three levels that
\* inserts alone have built and that holds every key of Keys
C38_Witness ==
    /\ ~panicked /\ last = [op |-> "contains", ret |-> TRUE]
    /\ height(root) = 3 /\ Len(root.keys) = 1
    /\ size = MaxKey + min_keys - 1


\* The nodes that the loop of contains enters, in the order they are entered
RECURSIVE entered_by_contains_loop(_, _)
entered_by_contains_at(node, s, val) ==
    IF s.found \/ is_leaf(node) \/ s.index >= Len(node.children)
    THEN <<>>
    ELSE entered_by_contains_loop(At(node.children, s.index), val)

entered_by_contains_loop(node, val) ==
    <<[node |-> node, is_root |-> FALSE]>>
    \o entered_by_contains_at(node, search(node, val), val)

\* The nodes that contains(val) enters on the tree self
entered_by_contains(self, val) == entered_by_contains_loop(self.root, val)

\* One node is entered in each iteration of a loop.  The iterations of a
\* call, of which `entered` are the nodes, go one level down each: a node
\* entered lies one level below the node entered before it, so that none is
\* entered twice, and the call ends within h + 1 iterations
GoesDown(entered, h) ==
    /\ Len(entered) >= 1 /\ Len(entered) <= h + 1
    /\ height(entered[1].node) <= h + 1
    /\ Len(entered) <= height(entered[1].node)
    /\ \A i \in 1..(Len(entered) - 1) :
          height(entered[i + 1].node) = height(entered[i].node) - 1

\* C39: every insert, remove and contains call terminates: each iteration
\* of the loops of contains, insert, remove_sub, remove_min and remove_max
\* either ends the call or goes on one level further down, so a call ends
\* after at most height + 1 iterations and enters no node twice.
C39_CallsTerminate ==
    ~panicked =>
        \A val \in Keys :
            /\ GoesDown(entered_by_contains(Self, val), height(root))
            /\ GoesDown(entered_by_insert(Self, val), height(root))
            /\ GoesDown(entered_by_remove(Self, val), height(root))

\* C39 witness: in a tree of two levels with a full root, left by a
\* remove, an insert takes height + 1 iterations and a remove and a
\* contains take height iterations
C39_Witness ==
    /\ ~panicked /\ last.op = "remove"
    /\ height(root) = 2 /\ Len(root.keys) = max_keys
    /\ \E val \in Keys : Len(entered_by_insert(Self, val)) = height(root) + 1
    /\ \E val \in Keys : Len(entered_by_remove(Self, val)) = height(root)
    /\ \E val \in Keys : Len(entered_by_contains(Self, val)) = height(root)

\* C39 witness of the other kind: in a tree of three levels a remove takes
\* height iterations, the last of them in remove_min or remove_max
C39_WitnessThreeLevels ==
    /\ ~panicked /\ height(root) = 3
    /\ \E val \in Keys :
          /\ search(root, val).found
          /\ Len(entered_by_remove(Self, val)) = height(root)

====
